---- MODULE Spec2Model ----
(***************************************************************************)
(* A model of the voice assistant's unified inference worker               *)
(* (src/src/lib/workers/ai.worker.js), of the mutex (src/src/lib/mutex.js)  *)
(* and of the turn orchestrator (src/src/hooks/useAssistant.js).            *)
(*                                                                         *)
(* The worker and the main thread are two event loops joined by two FIFO   *)
(* message ports.  One step of the model is one task of an event loop: the *)
(* receipt of a message, or the settling of an awaited promise, together   *)
(* with all the synchronous code (and promise continuations) that follow   *)
(* it up to the next await of an operation that really is asynchronous     *)
(* (a model load, a dispose, an inference run, a timer).                   *)
(*                                                                         *)
(* State is held in two records: worker (the worker's globals, its handler *)
(* activations and its outgoing port) and main (the hook's state, the      *)
(* mutex, the turns in progress and the main thread's outgoing port).  A   *)
(* third, probe, holds the input of a single handler run (SpecText).       *)
(* Operations are functions from records to records, named after the code. *)
(***************************************************************************)
EXTENDS Naturals, Integers, Sequences, FiniteSets, TLC

VARIABLES worker, main, probe

vars == <<worker, main, probe>>

(***************************************************************************)
(* Bounds of the model.                                                    *)
(***************************************************************************)
\* commands the environment posts to the worker in the open specification
MaxPosts == 2
\* processAudio calls made on the hook in the orchestrator specification
MaxCalls == 2
\* 'update' fragments one generation streams
MaxFrags == 1
\* length of the texts and conversations given to a single handler run
MaxText == 3

\* handler activations: one per command the worker can receive
NSlots == IF MaxPosts > 1 + 3 * MaxCalls THEN MaxPosts ELSE 1 + 3 * MaxCalls

Slots == 1..NSlots

\* JavaScript's null for currentPipeline; handles are named by the slot of the
\* handler activation whose setup function created them
NoHandle == 0

(***************************************************************************)
(* Text: a string is a sequence of one-character strings, except that the  *)
(* two tags of a reasoning block are one element each.                     *)
(***************************************************************************)
LineBreaks == {"\n", "\r"}

\* the characters \s matches and trim removes
IsSpace(c) == c \in {" ", "\t"} \cup LineBreaks

RECURSIVE TrimStart(_)
TrimStart(s) == IF s # <<>> /\ IsSpace(Head(s)) THEN TrimStart(Tail(s)) ELSE s

RECURSIVE TrimEnd(_)
TrimEnd(s) ==
    IF s # <<>> /\ IsSpace(s[Len(s)]) THEN TrimEnd(SubSeq(s, 1, Len(s) - 1)) ELSE s

\* String.prototype.trim
Trim(s) == TrimEnd(TrimStart(s))

\* whether t occurs in s starting at position k
OccursAt(s, t, k) ==
    /\ k + Len(t) - 1 <= Len(s)
    /\ \A j \in 1..Len(t) : s[k + j - 1] = t[j]

\* String.prototype.includes
Includes(s, t) == \E k \in 1..(Len(s) + 1) : OccursAt(s, t, k)

StrAllocation == <<"a", "l", "l", "o", "c", "a", "t", "i", "o", "n">>

(***************************************************************************)
(* Values a setup function can reject with.  A value has a type and, when  *)
(* it has them, the properties name and message; Undefined stands for a    *)
(* property the value does not have.                                       *)
(***************************************************************************)
Undefined == "undefined"

ErrRange ==
    [type |-> "object", name |-> "RangeError",
     message |-> <<"l", "e", "n">>]
ErrAlloc ==
    [type |-> "object", name |-> "Error",
     message |-> <<"n", "o", " ">> \o StrAllocation]
ErrNet ==
    [type |-> "object", name |-> "Error",
     message |-> <<"n", "e", "t">>]
\* a thrown string: a primitive with neither name nor message
ErrString ==
    [type |-> "string", name |-> Undefined, message |-> Undefined]
\* the errors switchPipeline itself creates
ErrOutOfMemory ==
    [type |-> "object", name |-> "Error",
     message |-> <<"O", "O", "M">>]
ErrTypeError ==
    [type |-> "object", name |-> "TypeError",
     message |-> <<"u", "n", "d", "e", "f">>]

\* what a setup function is taken to reject with
SetupErrors == {ErrRange, ErrAlloc, ErrNet, ErrString}

\* how a setup function can settle
SetupOutcomes ==
    {[ok |-> TRUE, err |-> ErrNet]} \cup {[ok |-> FALSE, err |-> e] : e \in SetupErrors}

\* What the worker's latest task has done in switchPipeline: how many dispose
\* calls, setup calls and 'Initializing' notifications it made, and, when its
\* setup function rejected (failed), the value err it rejected with, the
\* value the catch block has thrown for it, and whether by then a dispose call
\* on the handle that was resident at the call had settled (attempted).
\* For the preload handler: whether a create call of it has resolved in the
\* task (created), and how many dispose calls (pdisposes) and create calls
\* (pcreates) it has made in the task.  For every task: the command the
\* listener took in it (received, "none" when the task is not the receipt
\* of a command) and the 'complete' and 'error' messages posted in it
\* (terminals)
NoStep ==
    [disposes |-> 0, setups |-> 0, notices |-> 0,
     failed |-> FALSE, err |-> ErrNet, thrown |-> ErrNet, attempted |-> TRUE,
     created |-> FALSE, pdisposes |-> 0, pcreates |-> 0,
     received |-> "none", terminals |-> <<>>]

\* the catch block of switchPipeline: the value it throws for the value err
\* that the setup function rejected with
classify(err) ==
    IF err.type \in {"null", "undefined"} THEN ErrTypeError
    ELSE IF err.name = "RangeError" THEN ErrOutOfMemory
    ELSE IF err.message = Undefined THEN ErrTypeError
    ELSE IF Includes(err.message, StrAllocation) THEN ErrOutOfMemory
    ELSE err

(***************************************************************************)
(* Commands and messages.                                                  *)
(***************************************************************************)
Cmd(action, text) == [action |-> action, text |-> text]

\* the kind of capability a command's handler asks the manager for
TypeOf(action) ==
    CASE action = "transcribe" -> "stt"
      [] action = "chat" -> "chat"
      [] action = "speak" -> "tts"
      [] OTHER -> "null"

\* a message of the worker: text is the text property (<<>> when absent),
\* chunks and data tell whether those properties are present, output is the
\* fragment of an 'update', by is the handler activation that posted it
Msg(status, by) ==
    [status |-> status, text |-> <<>>, chunks |-> FALSE, data |-> FALSE,
     output |-> "", by |-> by]

\* the kinds preload warms, in order
PreloadKinds == <<"stt", "chat", "tts">>

\* dispose of a synthesis handle swallows every release error; the others
\* pass on what the runtime's dispose rejects with
DisposeOutcomes(type) ==
    IF type = "tts" THEN {"resolved"} ELSE {"resolved", "rejected"}

\* what a transcription run can return as output.text
TranscribeOutputs ==
    { <<>>, <<" ", "h">>, <<"h", "i">>, <<"(", "x", ")">> }

\* how the inference run of a handler can settle: it rejects, or it resolves,
\* a transcription with its output text
InferenceOutcomes(action) ==
    {[ok |-> FALSE, text |-> <<>>]} \cup
    IF action = "transcribe"
    THEN {[ok |-> TRUE, text |-> t] : t \in TranscribeOutputs}
    ELSE {[ok |-> TRUE, text |-> <<>>]}

\* the reply fragments a generation streams, in order
FragAlphabet == <<"a", "b", "c", "d">>
Frag(k) == FragAlphabet[((k - 1) % Len(FragAlphabet)) + 1]

\* /<think>[\s\S]*?<\/think>/g replaced by nothing
RECURSIVE SkipThink(_)
SkipThink(s) ==
    IF s = <<>> THEN <<>>
    ELSE IF Head(s) = "</think>" THEN Tail(s)
    ELSE SkipThink(Tail(s))

RECURSIVE StripThink(_)
StripThink(s) ==
    IF s = <<>> THEN <<>>
    ELSE IF Head(s) = "<think>" /\ \E k \in 2..Len(s) : s[k] = "</think>"
         THEN StripThink(SkipThink(Tail(s)))
    ELSE <<Head(s)>> \o StripThink(Tail(s))

(***************************************************************************)
(* The worker.                                                             *)
(***************************************************************************)
\* A handler activation: the command's action, where the handler is (pc), and
\* what its switchPipeline call has done so far: the resident handle it found
\* (entry), the handle it called dispose on (victim) and how that call stands
\* (dcall), the handle it returned (ret) and whether by the fast path (fast).
\* For preload: the stage (pstage) and its capability (ph).  emitted counts the
\* fragments a generation has streamed; errFrom says where a failure arose;
\* intr says that an interrupt command has been processed since this chat
\* command was received.
\* A capability handle: state is "none" before its setup function has resolved,
\* then "live", "disposing" once dispose has been called on it, and "disposed"
\* once a dispose call on it has settled
NoCapability == [state |-> "none", type |-> "null"]

IdleHandler ==
    [action |-> "none", pc |-> "idle",
     dcall |-> "none", victim |-> NoHandle, entry |-> NoHandle,
     ret |-> NoHandle, fast |-> FALSE,
     pstage |-> 0, ph |-> "none", emitted |-> 0,
     errFrom |-> "none", intr |-> FALSE]

\* an activation that has returned keeps only how it ended
EndedHandler(h) == [IdleHandler EXCEPT !.pc = "done", !.errFrom = h.errFrom]

InitWorker ==
    [currentPipeline |-> NoHandle,
     currentType |-> "null",
     handlers |-> [i \in Slots |-> IdleHandler],
     handles |-> [i \in Slots |-> NoCapability],
     nrecv |-> 0,
     outbox |-> <<>>,
     interrupted |-> FALSE,
     step |-> NoStep]

\* self.postMessage
postMessage(W, msg) ==
    [W EXCEPT !.outbox = Append(@, msg),
              !.step.terminals =
                  IF msg.status \in {"complete", "error"}
                  THEN Append(@, [by |-> msg.by, status |-> msg.status])
                  ELSE @]

\* the handler's own bookkeeping
SetPc(W, i, pc) == [W EXCEPT !.handlers[i].pc = pc]

\* the handler returns
handlerEnds(W, i) == [W EXCEPT !.handlers[i] = EndedHandler(@)]

\* the handler has ended by an error that reached the message listener's catch
\* (or, in handleTranscribe, the handler's own catch): an error message is posted
handlerFailsSilently(W, i, from) ==
    handlerEnds([W EXCEPT !.handlers[i].errFrom = from], i)
handlerFails(W, i, from) ==
    postMessage(handlerEnds([W EXCEPT !.handlers[i].errFrom = from], i),
                Msg("error", i))

\* switchPipeline, lines 112-119: the 'Initializing' notification, then setupFn
\* is invoked and awaited
initialize(W, i) ==
    [W EXCEPT !.step.notices = @ + 1,
              !.step.setups = @ + 1,
              !.handlers[i].pc = "setup"]

\* switchPipeline, lines 85-101: from the call to its first await or its return.
\* pc "ready" says the call has returned the handle in ret
switchPipelineNoAwait(W, i, type) ==
    LET cur == W.currentPipeline
        W0 == [W EXCEPT !.handlers[i].entry = cur]
    IN  IF W.currentType = type /\ cur # NoHandle
        THEN [W0 EXCEPT !.handlers[i].ret = cur,
                        !.handlers[i].fast = TRUE,
                        !.handlers[i].pc = "ready"]
        ELSE IF cur # NoHandle
        THEN initialize(
               [W0 EXCEPT !.handles[cur].state =
                              IF @ = "live" THEN "disposing" ELSE @,
                          !.step.disposes = @ + 1,
                          !.handlers[i].victim = cur,
                          !.handlers[i].dcall = "pending",
                          !.currentPipeline = NoHandle,
                          !.currentType = "null"], i)
        ELSE initialize(W0, i)
switchPipelineNoDispose(W, i, type) ==
    LET cur == W.currentPipeline
        W0 == [W EXCEPT !.handlers[i].entry = cur]
    IN  IF W.currentType = type /\ cur # NoHandle
        THEN [W0 EXCEPT !.handlers[i].ret = cur,
                        !.handlers[i].fast = TRUE,
                        !.handlers[i].pc = "ready"]
        ELSE initialize(W0, i)
switchPipelineNoFastPath(W, i, type) ==
    LET cur == W.currentPipeline
        W0 == [W EXCEPT !.handlers[i].entry = cur]
    IN  IF cur # NoHandle
        THEN [W0 EXCEPT !.handles[cur].state =
                              IF @ = "live" THEN "disposing" ELSE @,
                        !.step.disposes = @ + 1,
                        !.handlers[i].victim = cur,
                        !.handlers[i].dcall = "pending",
                        !.handlers[i].pc = "disposing"]
        ELSE initialize(W0, i)
switchPipeline(W, i, type) ==
    LET cur == W.currentPipeline
        W0 == [W EXCEPT !.handlers[i].entry = cur]
    IN  IF W.currentType = type /\ cur # NoHandle
        THEN [W0 EXCEPT !.handlers[i].ret = cur,
                        !.handlers[i].fast = TRUE,
                        !.handlers[i].pc = "ready"]
        ELSE IF cur # NoHandle
        THEN [W0 EXCEPT !.handles[cur].state =
                              IF @ = "live" THEN "disposing" ELSE @,
                        !.step.disposes = @ + 1,
                        !.handlers[i].victim = cur,
                        !.handlers[i].dcall = "pending",
                        !.handlers[i].pc = "disposing"]
        ELSE initialize(W0, i)

\* the handler's code after switchPipeline has returned: the inference run is
\* started and awaited; handleChat first resets the stopping criteria (line 372)
startInference(W, i) ==
    [SetPc(W, i, "infer") EXCEPT
        !.interrupted = IF W.handlers[i].action = "chat" THEN FALSE ELSE @]

\* a handler that calls switchPipeline, from the call to the next await
acquire(W, i) ==
    LET W1 == switchPipeline(W, i, TypeOf(W.handlers[i].action))
    IN  IF W1.handlers[i].pc = "ready" THEN startInference(W1, i) ELSE W1

\* switchPipeline, lines 102-110: the await of dispose has settled with outcome
\* ("resolved" or "rejected"); a rejection is caught and logged
disposeSettledPropagates(W, i, outcome) ==
    LET v == W.handlers[i].victim
        W1 == [W EXCEPT !.handlers[i].dcall = outcome,
                        !.handles[v].state = "disposed"]
    IN  IF outcome = "rejected"
        THEN handlerFails(W1, i, "dispose")
        ELSE initialize([W1 EXCEPT !.currentPipeline = NoHandle,
                                   !.currentType = "null"], i)
disposeSettled(W, i, outcome) ==
    LET v == W.handlers[i].victim
        W1 == [W EXCEPT !.handlers[i].dcall = outcome,
                        !.handles[v].state = "disposed",
                        !.currentPipeline = NoHandle,
                        !.currentType = "null"]
    IN  initialize(W1, i)

\* switchPipeline, lines 117-119: setupFn has resolved with a new handle
setupResolved(W, i) ==
    LET W1 == [W EXCEPT !.handles[i] =
                            [state |-> "live",
                             type |-> TypeOf(W.handlers[i].action)],
                        !.currentPipeline = i,
                        !.currentType = TypeOf(W.handlers[i].action),
                        !.handlers[i].ret = i,
                        !.handlers[i].pc = "ready"]
    IN  startInference(W1, i)

\* switchPipeline, lines 120-126: setupFn has rejected with err; what the catch
\* block throws reaches the handler, which ends with an error message
setupRejected(W, i, err) ==
    handlerFails([W EXCEPT !.step.failed = TRUE,
                           !.step.err = err,
                           !.step.thrown = classify(err),
                           !.step.attempted =
                               \/ W.handlers[i].entry = NoHandle
                               \/ /\ W.handlers[i].victim = W.handlers[i].entry
                                  /\ W.handlers[i].dcall \in {"resolved", "rejected"}],
                 i, "setup")

\* handleTranscribe, line 347: the hallucination filter on the trimmed output.
\* /^\s*\(.*\)\s*$/ matches a text that, spaces aside, starts with "(" and
\* ends with ")" and holds no line break in between
isHallucinationNoLength(outputText) ==
    LET t == Trim(outputText)
    IN  /\ Len(t) >= 2
        /\ t[1] = "("
        /\ t[Len(t)] = ")"
        /\ \A k \in 1..Len(t) : t[k] \notin LineBreaks
isHallucination(outputText) ==
    LET t == Trim(outputText)
    IN  \/ /\ Len(t) >= 2
           /\ t[1] = "("
           /\ t[Len(t)] = ")"
           /\ \A k \in 1..Len(t) : t[k] \notin LineBreaks
        \/ Len(outputText) < 2

\* handleTranscribe, lines 344-363: the transcription run has settled
transcribeSettled(W, i, ok, text) ==
    LET outputText == Trim(text)
    IN  IF ~ok THEN handlerFails(W, i, "infer")
        ELSE IF isHallucination(outputText) THEN handlerFails(W, i, "filter")
        ELSE postMessage(handlerEnds(W, i),
                         [Msg("complete", i) EXCEPT !.text = outputText,
                                                    !.chunks = TRUE])

\* stopping_criteria.interrupt(), line 226: the shared flag is set
interrupt(W) ==
    [W EXCEPT !.interrupted = TRUE,
              !.handlers = [j \in Slots |->
                  IF W.handlers[j].action = "chat" /\ W.handlers[j].pc \notin {"idle", "done"}
                  THEN [W.handlers[j] EXCEPT !.intr = TRUE]
                  ELSE W.handlers[j]]]

\* stopping_criteria.reset(), line 228
reset(W) == [W EXCEPT !.interrupted = FALSE]

\* the text streamed by the first k fragments
RECURSIVE Streamed(_)
Streamed(k) == IF k = 0 THEN <<>> ELSE Append(Streamed(k - 1), Frag(k))

\* handleChat, lines 416-437: model.generate has settled
chatSettled(W, i, ok) ==
    IF ok THEN postMessage(handlerEnds(W, i), Msg("complete", i))
    ELSE handlerFails(W, i, "infer")

\* A streamer's callback posts an 'update' during the inference run.
\* handleTranscribe, lines 311-323: the text of all chunks so far, as data.text;
\* handleChat, lines 406-408: the new fragment, as output; after the step the
\* generation consults stopping_criteria (line 422) and ends when it is set
streams(W, i) ==
    LET k == W.handlers[i].emitted + 1
        W1 == [W EXCEPT !.handlers[i].emitted = k]
    IN  IF W.handlers[i].action = "transcribe"
        THEN postMessage(W1, [Msg("update", i) EXCEPT !.data = TRUE,
                                                      !.text = Streamed(k)])
        ELSE LET W2 == postMessage(W1, [Msg("update", i) EXCEPT !.output = Frag(k)])
             IN  IF W.interrupted THEN chatSettled(W2, i, TRUE) ELSE W2

\* handleSpeak, lines 455-473: generateSupertonicSpeech has settled; it calls
\* the chunk callback once, at its end
speakSettledCompleteFirst(W, i, ok) ==
    IF ok
    THEN postMessage(postMessage(handlerEnds(W, i), Msg("complete", i)),
                     Msg("audio_chunk", i))
    ELSE handlerFails(W, i, "infer")
speakSettled(W, i, ok) ==
    IF ok
    THEN postMessage(postMessage(handlerEnds(W, i), Msg("audio_chunk", i)),
                     Msg("complete", i))
    ELSE handlerFails(W, i, "infer")

\* handleSpeak, lines 441-452
handleSpeak(W, i, text) ==
    LET sanitizedText == Trim(StripThink(text))
    IN  IF sanitizedText = <<>>
        THEN postMessage(handlerEnds(W, i), Msg("complete", i))
        ELSE acquire(W, i)

\* handlePreload: the create call of stage k is made and awaited
preloadCreate(W, i, k) ==
    [W EXCEPT !.handlers[i].pstage = k,
              !.handlers[i].ph = "loading",
              !.handlers[i].pc = "pl_create",
              !.step.pcreates = @ + 1]

\* handlePreload: a stage has ended (by success or by a caught error); the next
\* one starts, or the final 'complete' is posted
preloadNext(W, i) ==
    LET k == W.handlers[i].pstage
    IN  IF k < Len(PreloadKinds) THEN preloadCreate(W, i, k + 1)
        ELSE postMessage(handlerEnds(W, i), Msg("complete", i))

\* handlePreload, lines 244-245, 250-251, 256-257: the create call has settled;
\* on success dispose is called on the new capability at once and awaited
preloadCreatedNoDispose(W, i, ok) ==
    IF ok
    THEN preloadNext([W EXCEPT !.handlers[i].ph = "held",
                               !.step.created = TRUE], i)
    ELSE preloadNext([W EXCEPT !.handlers[i].ph = "none"], i)
preloadCreated(W, i, ok) ==
    IF ok
    THEN [W EXCEPT !.handlers[i].ph = "held",
                   !.handlers[i].pc = "pl_dispose",
                   !.step.created = TRUE,
                   !.step.pdisposes = @ + 1]
    ELSE preloadNext([W EXCEPT !.handlers[i].ph = "none"], i)

\* handlePreload: the dispose call has settled; a rejection is caught
preloadDisposed(W, i, outcome) ==
    preloadNext([W EXCEPT !.handlers[i].ph = "released"], i)

\* the message listener, lines 216-237: command c starts handler activation i,
\* which runs to its first await
listener(W, i, c) ==
    LET W1 == [W EXCEPT !.nrecv = i,
                        !.step.received = c.action,
                        !.handlers[i].action = c.action]
    IN  CASE c.action = "transcribe" -> acquire(W1, i)
          [] c.action = "chat" -> acquire(W1, i)
          [] c.action = "speak" -> handleSpeak(W1, i, c.text)
          [] c.action = "preload" -> preloadCreate(W1, i, 1)
          [] c.action = "interrupt" -> handlerEnds(interrupt(W1), i)
          [] c.action = "reset" -> handlerEnds(reset(W1), i)
          [] OTHER -> handlerEnds(W1, i)

(***************************************************************************)
(* The mutex (src/src/lib/mutex.js).  _queue holds the waiting callers, a   *)
(* caller being named by the processAudio call it is.                      *)
(***************************************************************************)
InitMutex == [_locked |-> FALSE, _queue |-> <<>>]

\* Mutex.lock called by t: it resolves at once exactly when the lock was free
lock(mx, t) ==
    IF mx._locked THEN [mx EXCEPT !._queue = Append(@, t)]
    ELSE [mx EXCEPT !._locked = TRUE]

\* Mutex.unlock: the first waiter, if any, is resolved
unlockLast(mx) ==
    IF Len(mx._queue) > 0
    THEN [mx EXCEPT !._queue = SubSeq(@, 1, Len(@) - 1)]
    ELSE [mx EXCEPT !._locked = FALSE]
unlockClears(mx) ==
    IF Len(mx._queue) > 0
    THEN [mx EXCEPT !._queue = Tail(@), !._locked = FALSE]
    ELSE [mx EXCEPT !._locked = FALSE]
unlock(mx) ==
    IF Len(mx._queue) > 0 THEN [mx EXCEPT !._queue = Tail(@)]
    ELSE [mx EXCEPT !._locked = FALSE]

\* Mutex.isLocked
isLocked(mx) == mx._locked

(***************************************************************************)
(* Callers of one Mutex, each running `await lock(); ...; unlock()` as     *)
(* runExclusive does.  pc is "out" while the caller is not using the       *)
(* mutex, "waiting" while its lock() promise is pending, "resolved" once   *)
(* the promise has been resolved and the caller has not resumed yet,       *)
(* "critical" from its resumption to its unlock().  ticket is the rank of  *)
(* the caller's lock() call among all lock() calls, via how its promise    *)
(* was resolved.                                                           *)
(***************************************************************************)
NCallers == 3
MaxLocks == 5
Callers == 1..NCallers

InitCallers ==
    [fn |-> "mutex",
     mutex |-> InitMutex,
     pc |-> [c \in Callers |-> "out"],
     ticket |-> [c \in Callers |-> 0],
     via |-> [c \in Callers |-> "none"],
     nlocks |-> 0]

\* the callers whose resolve function is in the queue
Queued(mx) == {mx._queue[k] : k \in 1..Len(mx._queue)}

\* caller c calls lock(), lines 8-17
callerLocks(P, c) ==
    LET free == ~P.mutex._locked
    IN  [P EXCEPT !.mutex = lock(P.mutex, c),
                  !.pc[c] = IF free THEN "resolved" ELSE "waiting",
                  !.via[c] = IF free THEN "free" ELSE "none",
                  !.ticket[c] = P.nlocks + 1,
                  !.nlocks = @ + 1]

\* caller c, whose lock() promise is resolved, resumes after its await
callerResumes(P, c) == [P EXCEPT !.pc[c] = "critical"]

\* caller c calls unlock(), lines 19-26: the promises of the resolve
\* functions that unlock() took from the queue are resolved
callerUnlocks(P, c) ==
    LET mx == unlock(P.mutex)
        woken == Queued(P.mutex) \ Queued(mx)
    IN  [P EXCEPT !.mutex = mx,
                  !.pc = [d \in Callers |->
                            IF d = c THEN "out"
                            ELSE IF d \in woken THEN "resolved" ELSE @[d]],
                  !.via = [d \in Callers |->
                            IF d = c THEN "none"
                            ELSE IF d \in woken THEN "handoff" ELSE @[d]],
                  !.ticket[c] = 0]

(***************************************************************************)
(* The hook useAssistant on the main thread.                               *)
(***************************************************************************)
Calls == 1..MaxCalls

\* A processAudio call: pc is "none" before the call, "dropped" when it
\* returned at the guard, "waiting" while its lock() is pending, "admitted"
\* once its lock() has been resolved and the code after `await lock()` has
\* not yet run, "stt", "chat", "tts" while it
\* awaits that stage's promise, "finishing" while the final timer is pending,
\* "done" and "failed" afterwards.  slot is the handler activation that the
\* command posted for the present stage starts in the worker, reply is
\* assistantReply, audio the argument, entered how often the call has set the
\* status to 'transcribing', unlocks how often it has called unlock().
NoTurn ==
    [pc |-> "none", slot |-> 0, reply |-> <<>>, audio |-> "none", entered |-> 0,
     unlocks |-> 0]

\* a call that has returned keeps how it ended and whether it was admitted
EndedTurn(u, pc) ==
    [NoTurn EXCEPT !.pc = pc, !.entered = u.entered, !.unlocks = u.unlocks]

InitMain ==
    [mounted |-> FALSE,
     posted |-> <<>>,
     nsent |-> 0,
     mutex |-> InitMutex,
     status |-> "idle",
     transcript |-> <<>>,
     response |-> <<>>,
     calls |-> 0,
     turns |-> [t \in Calls |-> NoTurn],
     errTimers |-> 0]

\* worker.postMessage: the command is queued on the port; it will start the
\* worker's next handler activation
post(M, t, c) ==
    [M EXCEPT !.posted = Append(@, c),
              !.nsent = @ + 1,
              !.turns[t].slot = M.nsent + 1]

\* processAudio, lines 328-334: the catch block
turnFails(M, t) ==
    LET mx == unlock(M.mutex)
        M1 == [M EXCEPT !.status = "error",
                        !.mutex = mx,
                        !.errTimers = @ + 1,
                        !.turns[t] =
                            EndedTurn([@ EXCEPT !.unlocks = @ + 1], "failed")]
    IN  IF Len(M.mutex._queue) > 0
        THEN [M1 EXCEPT !.turns[Head(M.mutex._queue)].pc = "admitted"]
        ELSE M1

\* processAudio, lines 211-270: the code after `await mutex.current.lock()`,
\* up to the await of the transcription promise
turnBegins(M, t) ==
    LET M1 == [M EXCEPT !.status = "transcribing",
                        !.transcript = <<>>,
                        !.response = <<>>,
                        !.turns[t].entered = @ + 1]
    IN  IF M.turns[t].audio = "invalid" THEN turnFails(M1, t)
        ELSE post([M1 EXCEPT !.turns[t].pc = "stt"], t, Cmd("transcribe", <<>>))

\* processAudio, lines 207-209: the guard and the call of lock(); the call
\* yields at `await mutex.current.lock()` even when lock() resolves at once,
\* and what follows runs as a continuation after the code that called
\* processAudio
processAudioNoGuard(M, audio) ==
    LET t == M.calls + 1
        M1 == [M EXCEPT !.calls = t,
                        !.turns[t].audio = audio,
                        !.mutex = lock(M.mutex, t)]
    IN  [M1 EXCEPT !.turns[t].pc = IF M.mutex._locked THEN "waiting" ELSE "admitted"]
processAudio(M, audio) ==
    LET t == M.calls + 1
        M0 == [M EXCEPT !.calls = t]
        M1 == [M0 EXCEPT !.turns[t].audio = audio,
                         !.mutex = lock(M.mutex, t)]
    IN  IF isLocked(M.mutex) THEN [M0 EXCEPT !.turns[t] = EndedTurn(@, "dropped")]
        ELSE [M1 EXCEPT !.turns[t].pc =
                           IF M.mutex._locked THEN "waiting" ELSE "admitted"]

\* processAudio, lines 270-295: the transcription promise has resolved with
\* finalTranscript
sttResolved(M, t, finalTranscript) ==
    IF Trim(finalTranscript) = <<>> THEN turnFails(M, t)
    ELSE post([M EXCEPT !.status = "thinking",
                        !.turns[t].pc = "chat",
                        !.turns[t].reply = <<>>],
              t, Cmd("chat", <<>>))

\* processAudio, lines 297-318: the generation promise has resolved
chatResolved(M, t) ==
    post([M EXCEPT !.status = "speaking", !.turns[t].pc = "tts"],
         t, Cmd("speak", M.turns[t].reply))

\* processAudio, lines 320-326: the synthesis promise has resolved; the final
\* timer is set
ttsResolved(M, t) == [M EXCEPT !.turns[t].pc = "finishing"]

\* processAudio, lines 322-326: the final timer fires
turnEndsKeepsLock(M, t) ==
    [M EXCEPT !.status = "idle", !.turns[t] = EndedTurn(@, "done")]
turnEnds(M, t) ==
    LET M1 == [M EXCEPT !.status = "idle",
                        !.mutex = unlock(M.mutex),
                        !.turns[t] =
                            EndedTurn([@ EXCEPT !.unlocks = @ + 1], "done")]
    IN  IF Len(M.mutex._queue) > 0
        THEN [M1 EXCEPT !.turns[Head(M.mutex._queue)].pc = "admitted"]
        ELSE M1

\* processAudio, lines 249-265, 282-292 and 305-315: the listener that call t
\* has registered for its present stage receives msg.  No message of the
\* worker has an action property, so the stt listener's error branch
\* (data.status === 'error' && data.action === 'transcribe') is never taken
stageListener(M, t, msg) ==
    LET pc == M.turns[t].pc
    IN  CASE pc = "stt" ->
               IF msg.status = "update"
               THEN [M EXCEPT !.transcript = IF msg.data THEN msg.text ELSE <<>>]
               ELSE IF msg.status = "complete" /\ (msg.text # <<>> \/ msg.chunks)
               THEN sttResolved([M EXCEPT !.transcript = msg.text], t, msg.text)
               ELSE M
          [] pc = "chat" ->
               IF msg.status = "update" /\ ~msg.data
               THEN [M EXCEPT !.response = Append(@, msg.output),
                              !.turns[t].reply = Append(@, msg.output)]
               ELSE IF msg.status = "complete" /\ msg.text = <<>>
               THEN chatResolved(M, t)
               ELSE M
          [] pc = "tts" ->
               IF msg.status = "complete" /\ msg.text = <<>>
               THEN ttsResolved(M, t)
               ELSE M
          [] OTHER -> M

\* the message event msg is dispatched to the listeners of the worker object:
\* handleMessage (lines 178-192), which only logs and records progress, and
\* the stage listeners of the calls from t on
RECURSIVE dispatch(_, _, _)
dispatch(M, msg, t) ==
    IF t > MaxCalls THEN M
    ELSE dispatch(stageListener(M, t, msg), msg, t + 1)

\* the mount effect, lines 175-199: the worker is created, handleMessage is
\* registered and preload is posted
mount(M) ==
    [M EXCEPT !.mounted = TRUE,
              !.posted = Append(@, Cmd("preload", <<>>)),
              !.nsent = @ + 1]

\* what the environment may pass to processAudio
AudioInputs == {"samples", "invalid"}

\* commands a client may post to the worker
EnvCommands ==
    { Cmd("transcribe", <<>>), Cmd("chat", <<>>), Cmd("preload", <<>>),
      Cmd("speak", <<"a">>),
      Cmd("speak", <<"<think>", "a", "</think>">>) }

(***************************************************************************)
(* Single handler runs on given texts.  probe holds the input of one run   *)
(* of a handler on a fresh worker: fn is the handler, text its text input, *)
(* messages the roles of the turns of a conversation; done says the run    *)
(* has been made and out holds the conversation it built.                  *)
(***************************************************************************)
NoProbe ==
    [fn |-> "none", text |-> <<>>, messages |-> <<>>, done |-> FALSE, out |-> <<>>]

\* the sequences over A of length at most n
Texts(A, n) == UNION {[1..k -> A] : k \in 0..n}

\* characters of a transcription output, of a text to speak, roles of turns
TranscriptAlphabet == {"(", ")", "[", "]", " ", "h", "\n"}
SpeakAlphabet == {"<think>", "</think>", "a", " "}

\* characters of longer transcription outputs: markers and words
MarkedAlphabet == {"(", ")", "h"}
MaxMarked == 7
Roles == {"system", "user", "assistant"}

\* the system turn handleChat puts in front (lines 378 and 386)
DefaultSystem == [role |-> "system", content |-> "default"]

\* a conversation of the caller: turn k has the role rs[k] and content k
Conversation(rs) == [k \in 1..Len(rs) |-> [role |-> rs[k], content |-> k]]

ProbeInputs ==
    {[NoProbe EXCEPT !.fn = "transcribe", !.text = t] :
        t \in Texts(TranscriptAlphabet, MaxText) \cup Texts(MarkedAlphabet, MaxMarked)}
    \cup {[NoProbe EXCEPT !.fn = "speak", !.text = t] :
        t \in Texts(SpeakAlphabet, MaxText)}
    \cup {[NoProbe EXCEPT !.fn = "chat", !.messages = Conversation(rs)] :
        rs \in Texts(Roles, MaxText)}

\* handleChat, lines 374-390: the conversation given to the chat template for
\* an array of turns
conversationOf(messages) ==
    LET hasSystem == \E k \in 1..Len(messages) : messages[k].role = "system"
    IN  IF ~hasSystem THEN <<DefaultSystem>> \o messages ELSE messages

(***************************************************************************)
(* Actions.                                                                *)
(***************************************************************************)
\* The worker's outgoing port: without a listener on the main thread
\* (the hook is not mounted) a posted message is delivered to nobody
Port(W) == IF main.mounted THEN W ELSE [W EXCEPT !.outbox = <<>>]

\* the worker at the start of a task
Task == [worker EXCEPT !.step = NoStep]

\* no switchPipeline call is in progress
ManagerQuiet ==
    \A i \in Slots : worker.handlers[i].pc \notin {"disposing", "setup"}

\* a client posts command c and the worker's event loop takes it
ClientCommand(c) ==
    /\ ~main.mounted
    /\ worker.nrecv < MaxPosts
    /\ worker' = Port(listener(Task, worker.nrecv + 1, c))
    /\ UNCHANGED <<main, probe>>

\* the worker's event loop takes the next command the hook has posted
Receive ==
    /\ main.posted # <<>>
    /\ worker.nrecv < NSlots
    /\ worker' = Port(listener(Task, worker.nrecv + 1, Head(main.posted)))
    /\ main' = [main EXCEPT !.posted = Tail(@)]
    /\ UNCHANGED probe

\* an awaited dispose call of switchPipeline settles
DisposeSettles ==
    \E i \in Slots :
      /\ worker.handlers[i].pc = "disposing"
      /\ \E o \in DisposeOutcomes(worker.handles[worker.handlers[i].victim].type) :
           worker' = Port(disposeSettled(Task, i, o))
      /\ UNCHANGED <<main, probe>>

\* an awaited setup function settles
SetupSettles ==
    \E i \in Slots :
      /\ worker.handlers[i].pc = "setup"
      /\ \E o \in SetupOutcomes :
           worker' = Port(IF o.ok THEN setupResolved(Task, i)
                          ELSE setupRejected(Task, i, o.err))
      /\ UNCHANGED <<main, probe>>

\* an inference run settles
InferenceSettles ==
    \E i \in Slots :
      /\ worker.handlers[i].pc = "infer"
      /\ LET a == worker.handlers[i].action
         IN  \E o \in InferenceOutcomes(a) :
               worker' = Port(CASE a = "transcribe" ->
                                     transcribeSettled(Task, i, o.ok, o.text)
                                [] a = "chat" -> chatSettled(Task, i, o.ok)
                                [] OTHER -> speakSettled(Task, i, o.ok))
      /\ UNCHANGED <<main, probe>>

\* a running transcription or generation streams a fragment
InferenceStreams ==
    \E i \in Slots :
      /\ worker.handlers[i].pc = "infer"
      /\ worker.handlers[i].action \in {"transcribe", "chat"}
      /\ worker.handlers[i].emitted < MaxFrags
      /\ worker' = Port(streams(Task, i))
      /\ UNCHANGED <<main, probe>>

\* a create call of the preload handler settles
PreloadCreateSettles ==
    \E i \in Slots :
      /\ worker.handlers[i].pc = "pl_create"
      /\ \E ok \in BOOLEAN : worker' = Port(preloadCreated(Task, i, ok))
      /\ UNCHANGED <<main, probe>>

\* a dispose call of the preload handler settles
PreloadDisposeSettles ==
    \E i \in Slots :
      /\ worker.handlers[i].pc = "pl_dispose"
      /\ \E o \in DisposeOutcomes(PreloadKinds[worker.handlers[i].pstage]) :
           worker' = Port(preloadDisposed(Task, i, o))
      /\ UNCHANGED <<main, probe>>

\* no continuation of an `await lock()` is pending on the main thread; the
\* event loop runs the pending continuations before it takes the next task
NoContinuation == \A t \in Calls : main.turns[t].pc # "admitted"

\* the main thread's event loop takes the worker's next message
Deliver ==
    /\ NoContinuation
    /\ worker.outbox # <<>>
    /\ worker' = [worker EXCEPT !.outbox = Tail(@)]
    /\ main' = dispatch(main, Head(worker.outbox), 1)
    /\ UNCHANGED probe

\* the application calls processAudio
ProcessAudio ==
    /\ main.mounted
    /\ main.calls < MaxCalls
    /\ \E a \in AudioInputs : main' = processAudio(main, a)
    /\ UNCHANGED <<worker, probe>>

\* the lock() of a call has resolved: the call goes on after its await
\* (line 209)
LockResolves ==
    \E t \in Calls :
      /\ main.turns[t].pc = "admitted"
      /\ main' = turnBegins(main, t)
      /\ UNCHANGED <<worker, probe>>

\* the timer set at the end of a turn fires (line 322)
FinalTimer ==
    \E t \in Calls :
      /\ NoContinuation
      /\ main.turns[t].pc = "finishing"
      /\ main' = turnEnds(main, t)
      /\ UNCHANGED <<worker, probe>>

\* a timer set by the catch block fires (line 333)
ErrorTimer ==
    /\ NoContinuation
    /\ main.errTimers > 0
    /\ main' = [main EXCEPT !.status = "idle", !.errTimers = @ - 1]
    /\ UNCHANGED <<worker, probe>>

\* a transcribe command runs on a fresh worker: its setup resolves and the
\* transcription returns probe.text
RunTranscribe ==
    /\ probe.fn = "transcribe" /\ ~probe.done
    /\ worker' = transcribeSettled(
                    setupResolved(listener(worker, 1, Cmd("transcribe", <<>>)), 1),
                    1, TRUE, probe.text)
    /\ probe' = [probe EXCEPT !.done = TRUE]
    /\ UNCHANGED main

\* a speak command with the text probe.text runs to its first await
RunSpeak ==
    /\ probe.fn = "speak" /\ ~probe.done
    /\ worker' = listener(worker, 1, Cmd("speak", probe.text))
    /\ probe' = [probe EXCEPT !.done = TRUE]
    /\ UNCHANGED main

\* a chat command with the conversation probe.messages builds the
\* conversation it hands to the chat template
RunChat ==
    /\ probe.fn = "chat" /\ ~probe.done
    /\ probe' = [probe EXCEPT !.done = TRUE, !.out = conversationOf(probe.messages)]
    /\ UNCHANGED <<worker, main>>

WorkerStep ==
    \/ DisposeSettles
    \/ SetupSettles
    \/ InferenceSettles
    \/ InferenceStreams
    \/ PreloadCreateSettles
    \/ PreloadDisposeSettles

(***************************************************************************)
(* Spec: the worker with clients that post any commands at any time.       *)
(***************************************************************************)
Init ==
    /\ worker = InitWorker
    /\ main = InitMain
    /\ probe = NoProbe

Next ==
    \/ \E c \in EnvCommands : ClientCommand(c)
    \/ WorkerStep

Spec == Init /\ [][Next]_vars

(***************************************************************************)
(* SpecCancel: the worker with clients that also post interrupt commands.  *)
(***************************************************************************)
CancelCommands ==
    { Cmd("chat", <<>>), Cmd("transcribe", <<>>), Cmd("preload", <<>>),
      Cmd("interrupt", <<>>) }

NextCancel ==
    \/ \E c \in CancelCommands : ClientCommand(c)
    \/ WorkerStep

SpecCancel == Init /\ [][NextCancel]_vars

(***************************************************************************)
(* SpecCommands: the worker with clients that post every kind of command,  *)
(* also one the listener does not know.                                    *)
(***************************************************************************)
AllCommands ==
    EnvCommands \cup
    { Cmd("speak", <<>>), Cmd("interrupt", <<>>), Cmd("reset", <<>>),
      Cmd("unknown", <<>>) }

NextCommands ==
    \/ \E c \in AllCommands : ClientCommand(c)
    \/ WorkerStep

SpecCommands == Init /\ [][NextCommands]_vars

(***************************************************************************)
(* SpecText: one handler run on a fresh worker, for every text and every   *)
(* conversation up to the bound.                                           *)
(***************************************************************************)
InitText ==
    /\ worker = InitWorker
    /\ main = InitMain
    /\ probe \in ProbeInputs

NextText == RunTranscribe \/ RunSpeak \/ RunChat

SpecText == InitText /\ [][NextText]_vars

(***************************************************************************)
(* SpecSeq: as Spec, but a command is taken only when no switchPipeline    *)
(* call is in progress.                                                    *)
(***************************************************************************)
NextSeq ==
    \/ \E c \in EnvCommands : ManagerQuiet /\ ClientCommand(c)
    \/ WorkerStep

SpecSeq == Init /\ [][NextSeq]_vars

(***************************************************************************)
(* The text and latent utilities of the synthesis (tts.utils.js).  A text  *)
(* is a sequence of characters; the character "U+1F30D" stands for one     *)
(* outside the basic plane (two UTF-16 units, one code point), "U+1F600"   *)
(* for one of the emoticon block that preprocessText removes.  A duration  *)
(* of n stands for n / Grain seconds, so that the product of a duration    *)
(* and the sample rate has a fractional part.                              *)
(***************************************************************************)
MaxBatch == 3
MaxDur == 6
Grain == 3

Astral == {"U+1F30D", "U+1F600"}
Emoticons == {"U+1F600"}
TtsAlphabet == {"a", " ", ".", "U+0416", "U+1F30D", "U+1F600"}

\* String.prototype.length: the number of UTF-16 units
RECURSIVE Length(_)
Length(text) ==
    IF text = <<>> THEN 0
    ELSE (IF Head(text) \in Astral THEN 2 ELSE 1) + Length(Tail(text))

\* Math.max of a non-empty list
MathMax(xs) == CHOOSE m \in {xs[k] : k \in 1..Len(xs)} : \A k \in 1..Len(xs) : xs[k] <= m

\* text.replace(/[\u{1F600}-\u{1F64F}]/gu, '')
RECURSIVE removeEmoticons(_)
removeEmoticons(text) ==
    IF text = <<>> THEN <<>>
    ELSE IF Head(text) \in Emoticons THEN removeEmoticons(Tail(text))
    ELSE <<Head(text)>> \o removeEmoticons(Tail(text))

\* text.replace(/\s+/g, " ")
RECURSIVE collapseSpaces(_)
collapseSpaces(text) ==
    IF text = <<>> THEN <<>>
    ELSE IF IsSpace(Head(text))
    THEN <<" ">> \o collapseSpaces(TrimStart(text))
    ELSE <<Head(text)>> \o collapseSpaces(Tail(text))

\* the characters of the alphabet that the test of line 126 accepts at the end
ClosingPunctuation == {".", "!", "?", ";", ":", ","}

\* preprocessText, lines 118-140; NFKD normalisation leaves the characters
\* of the alphabet as they are; lang is the language code, <<>> for null
preprocessText(text, lang) ==
    LET t1 == Trim(collapseSpaces(removeEmoticons(text)))
        t2 == IF t1 # <<>> /\ t1[Len(t1)] \in ClosingPunctuation
              THEN t1 ELSE t1 \o <<".">>
        tag == IF lang = <<>> THEN <<"n", "a">> ELSE lang
    IN  <<"<">> \o tag \o <<">">> \o t2 \o <<"<", "/">> \o tag \o <<">">>

\* the two UTF-16 units of a character beyond U+FFFF
HighSurrogate(char) == IF char = "U+1F30D" THEN "U+D83C" ELSE "U+D83D"
LowSurrogate(char) == IF char = "U+1F30D" THEN "U+DF0D" ELSE "U+DE00"

\* the UTF-16 units of a string, which text[j] indexes
RECURSIVE Units(_)
Units(text) ==
    IF text = <<>> THEN <<>>
    ELSE (IF Head(text) \in Astral
          THEN <<HighSurrogate(Head(text)), LowSurrogate(Head(text))>>
          ELSE <<Head(text)>>) \o Units(Tail(text))

\* textToUnicodeValues, lines 46-48: one value for each code point, the
\* first UTF-16 unit of the character
textToUnicodeValues(text) ==
    [k \in 1..Len(text) |->
        IF text[k] \in Astral THEN HighSurrogate(text[k]) ELSE text[k]]

\* the characters the indexer has an entry for, the entry being the position
IndexedChars == <<"<", ">", "/", "e", "n", "a", " ", ".">>

\* this.indexer[value], lines 28-34: 0 for a value without entry
indexer(value) ==
    IF \E k \in 1..Len(IndexedChars) : IndexedChars[k] = value
    THEN CHOOSE k \in 1..Len(IndexedChars) : IndexedChars[k] = value
    ELSE 0

\* lengthToMask, lines 50-61; maxLen is 0 for the default null, which the
\* || of line 51 treats alike.  Row i holds one list, whose entry at the
\* (0-based) index j is at position j + 1.  For an empty batch Math.max is
\* -Infinity and no row is built
lengthToMaskInclusive(lengths, maxLen) ==
    IF lengths = <<>> THEN <<>>
    ELSE LET m == IF maxLen # 0 THEN maxLen ELSE MathMax(lengths)
         IN  [i \in 1..Len(lengths) |->
                <<[j1 \in 1..m |-> IF j1 - 1 <= lengths[i] THEN 1 ELSE 0]>>]
lengthToMask(lengths, maxLen) ==
    IF lengths = <<>> THEN <<>>
    ELSE LET m == IF maxLen # 0 THEN maxLen ELSE MathMax(lengths)
         IN  [i \in 1..Len(lengths) |->
                <<[j1 \in 1..m |-> IF j1 - 1 < lengths[i] THEN 1 ELSE 0]>>]

\* getTextMask, lines 63-65
getTextMask(textIdsLengths) == lengthToMask(textIdsLengths, 0)

\* UnicodeProcessor.call, lines 16-41, for a non-empty textList
call(textList, lang) ==
    LET processedTexts == [i \in 1..Len(textList) |-> preprocessText(textList[i], lang)]
        textIdsLengths == [i \in 1..Len(textList) |-> Length(processedTexts[i])]
        maxLen == MathMax(textIdsLengths)
        row(i) ==
            LET unicodeVals == textToUnicodeValues(processedTexts[i])
            IN  [j1 \in 1..maxLen |->
                    IF j1 <= Len(unicodeVals) THEN indexer(unicodeVals[j1]) ELSE 0]
        unsupported(i) ==
            LET unicodeVals == textToUnicodeValues(processedTexts[i])
            IN  {Units(processedTexts[i])[j1] :
                    j1 \in {j \in 1..Len(unicodeVals) : indexer(unicodeVals[j]) = 0}}
    IN  [textIds |-> [i \in 1..Len(textList) |-> row(i)],
         textMask |-> getTextMask(textIdsLengths),
         unsupportedChars |-> UNION {unsupported(i) : i \in 1..Len(textList)},
         lengths |-> textIdsLengths]

\* the configuration tts.json: the fields the utilities read
Cfgs ==
    {[ae |-> [sample_rate |-> sr, base_chunk_size |-> bc],
      ttl |-> [chunk_compress_factor |-> cf, latent_dim |-> 1]] :
        sr \in {2, 3}, bc \in {1, 2}, cf \in {1, 2}}

\* Math.floor(a / b) for a >= 0 and b > 0
floorDiv(a, b) == a \div b

\* getLatentMask, lines 67-75
getLatentMaskWholeChunks(wavLengths, cfgs) ==
    LET latentSize == cfgs.ae.base_chunk_size * cfgs.ttl.chunk_compress_factor
        latentLengths ==
            [i \in 1..Len(wavLengths) |-> floorDiv(wavLengths[i], latentSize)]
    IN  lengthToMask(latentLengths, 0)
getLatentMask(wavLengths, cfgs) ==
    LET latentSize == cfgs.ae.base_chunk_size * cfgs.ttl.chunk_compress_factor
        latentLengths ==
            [i \in 1..Len(wavLengths) |->
                floorDiv(wavLengths[i] + latentSize - 1, latentSize)]
    IN  lengthToMask(latentLengths, 0)

\* line 97: the Box-Muller value for the first uniform draw u1; Math.log(0)
\* is -Infinity, so the value is infinite when Math.random() returned 0 and
\* finite and non-zero otherwise
randNormal(u1) == IF u1 = "zero" THEN "infinite" ELSE "finite"

\* line 110: x *= row[t] for the mask row and the (1-based) time position t;
\* row[t] is undefined beyond the end of the row and the product is NaN
times(x, row, t) ==
    IF t > Len(row) THEN "NaN"
    ELSE IF row[t] = 1 THEN x
    ELSE IF x = "finite" THEN "zero" ELSE "NaN"

\* sampleNoisyLatent, lines 77-116, for a non-empty batch; duration[b] is
\* the predicted duration of row b in units of 1 / Grain seconds, zeroAt the
\* (1-based) time position at which Math.random() returns 0 for u1 (0: at
\* none)
sampleNoisyLatent(duration, cfgs, zeroAt) ==
    LET sampleRate == cfgs.ae.sample_rate
        chunkSize == cfgs.ae.base_chunk_size * cfgs.ttl.chunk_compress_factor
        \* wavLenMax * Grain: the product is not rounded
        wavLenMaxG == MathMax(duration) * sampleRate
        wavLengths == [b \in 1..Len(duration) |->
                         floorDiv(duration[b] * sampleRate, Grain)]
        latentLen == floorDiv(wavLenMaxG + Grain * (chunkSize - 1), Grain * chunkSize)
        latentDim == cfgs.ttl.latent_dim * cfgs.ttl.chunk_compress_factor
        latentMask == getLatentMask(wavLengths, cfgs)
    IN  [noisyLatent |->
            [b \in 1..Len(duration) |->
               [d \in 1..latentDim |->
                  [t \in 1..latentLen |->
                     times(randNormal(IF t = zeroAt THEN "zero" ELSE "positive"),
                           latentMask[b][1], t)]]],
         latentMask |-> latentMask]

\* the number of time positions sampleNoisyLatent draws for each row
draws(duration, cfgs) ==
    Len(sampleNoisyLatent(duration, cfgs, 0).noisyLatent[1][1])

\* batches of lengths, of texts and of durations
Batches(A, n) == UNION {[1..k -> A] : k \in 1..n}

TtsInputs ==
    {[fn |-> "lengthToMask", arg |-> ls, done |-> FALSE, out |-> <<>>] :
        ls \in Texts(0..MaxText, MaxBatch)}
    \cup {[fn |-> "call", arg |-> <<t>> \o rest, done |-> FALSE, out |-> <<>>] :
        t \in Texts(TtsAlphabet, MaxText), rest \in Texts({<<"a">>, <<>>}, 1)}
    \cup {[fn |-> "sampleNoisyLatent", arg |-> ds, cfgs |-> c, zeroAt |-> 0,
           done |-> FALSE, out |-> <<>>] :
        ds \in Batches(0..MaxDur, MaxBatch), c \in Cfgs}

\* lengthToMask is applied to the batch of lengths probe.arg
RunLengthToMask ==
    /\ probe.fn = "lengthToMask" /\ ~probe.done
    /\ probe' = [probe EXCEPT !.done = TRUE, !.out = lengthToMask(probe.arg, 0)]
    /\ UNCHANGED <<worker, main>>

\* the text processor is called with the batch of texts probe.arg
RunCall ==
    /\ probe.fn = "call" /\ ~probe.done
    /\ probe' = [probe EXCEPT !.done = TRUE,
                              !.out = call(probe.arg, <<"e", "n">>)]
    /\ UNCHANGED <<worker, main>>

\* sampleNoisyLatent is applied to the batch of durations probe.arg
RunSampleNoisyLatent ==
    /\ probe.fn = "sampleNoisyLatent" /\ ~probe.done
    /\ \E zeroAt \in 0..draws(probe.arg, probe.cfgs) :
         probe' = [probe EXCEPT
                     !.done = TRUE,
                     !.zeroAt = zeroAt,
                     !.out = sampleNoisyLatent(probe.arg, probe.cfgs, zeroAt)]
    /\ UNCHANGED <<worker, main>>

InitTts ==
    /\ worker = InitWorker
    /\ main = InitMain
    /\ probe \in TtsInputs

NextTts == RunLengthToMask \/ RunCall \/ RunSampleNoisyLatent

SpecTts == InitTts /\ [][NextTts]_vars

(***************************************************************************)
(* generateSupertonicSpeech (tts.utils.js 230-325) as a process: pc names  *)
(* the promise the call awaits ("style", "dp", "enc", "est", "voc"), or is *)
(* "returned" or "thrown".  events lists the calls of the sessions' run    *)
(* and their returns in the order they happen.  latentBuffer is 0 while    *)
(* the buffer holds the sampled noise and k + 1 once it holds what the     *)
(* denoising step k returned.  dur is the predicted duration in units of   *)
(* 1 / Grain seconds.                                                      *)
(***************************************************************************)
MaxSamples == 7
totalStep == 10
durationFactor == 1

SynthInputs ==
    {[fn |-> "generateSupertonicSpeech", pc |-> "style", text |-> t, cfgs |-> c,
      dur |-> 0, step |-> 0, latentBuffer |-> 0, latentShape |-> <<>>,
      events |-> <<>>, chunks |-> <<>>] :
        t \in {<<"a">>, <<"a", "U+1F30D">>}, c \in Cfgs}

\* models.<session>.run(feeds) is called
run(P, session, feeds) ==
    [P EXCEPT !.events = Append(@, [ev |-> "run", session |-> session,
                                    feeds |-> feeds])]

\* the awaited run of the session has returned
returned(P, session) ==
    [P EXCEPT !.events = Append(@, [ev |-> "ret", session |-> session,
                                    feeds |-> <<>>])]

\* an awaited promise has rejected: the call throws
synthThrows(P) == [P EXCEPT !.pc = "thrown"]

\* lines 233-251: the voice style has loaded; the text is processed and the
\* duration predictor is run
styleLoaded(P) ==
    LET tp == call(<<P.text>>, <<"e", "n">>)
        textIdsShape == <<1, Len(tp.textIds[1])>>
        textMaskShape == <<1, 1, Len(tp.textMask[1][1])>>
    IN  run([P EXCEPT !.pc = "dp"], "dpOrt",
            [text_ids |-> textIdsShape, text_mask |-> textMaskShape])

\* lines 253-264: the duration predictor has returned the duration n; the
\* text encoder is run
dpReturned(P, n) ==
    LET tp == call(<<P.text>>, <<"e", "n">>)
    IN  run([returned(P, "dpOrt") EXCEPT !.pc = "enc", !.dur = n * durationFactor],
            "textEncOrt",
            [text_ids |-> <<1, Len(tp.textIds[1])>>,
             text_mask |-> <<1, 1, Len(tp.textMask[1][1])>>])

\* lines 293-313: the head of the denoising loop for the step P.step, and the
\* vocoder once the loop is over
denoise(P) ==
    IF P.step < totalStep
    THEN run([P EXCEPT !.pc = "est"], "vectorEstOrt",
             [noisy_latent |-> P.latentBuffer, shape |-> P.latentShape,
              total_step |-> totalStep, current_step |-> P.step])
    ELSE run([P EXCEPT !.pc = "voc"], "vocoderOrt",
             [latent |-> P.latentBuffer, shape |-> P.latentShape])

\* lines 266-305: the text encoder has returned; the noise is sampled into
\* the buffer and the denoising loop is entered
textEncReturnedWholeChunks(P) ==
    LET sampled == sampleNoisyLatent(<<P.dur>>, P.cfgs, 0)
        chunkSize == P.cfgs.ae.base_chunk_size * P.cfgs.ttl.chunk_compress_factor
        wavLen == floorDiv(P.dur * P.cfgs.ae.sample_rate, Grain)
    IN  denoise([returned(P, "textEncOrt") EXCEPT
                    !.latentShape = <<1, Len(sampled.noisyLatent[1]),
                                      floorDiv(wavLen, chunkSize)>>,
                    !.latentBuffer = 0,
                    !.step = 0])
textEncReturned(P) ==
    LET sampled == sampleNoisyLatent(<<P.dur>>, P.cfgs, 0)
        latentDim == Len(sampled.noisyLatent[1])
        latentLen == Len(sampled.noisyLatent[1][1])
    IN  denoise([returned(P, "textEncOrt") EXCEPT
                    !.latentShape = <<1, latentDim, latentLen>>,
                    !.latentBuffer = 0,
                    !.step = 0])

\* lines 307-313: a denoising step has returned; its result is copied into
\* the buffer and the loop goes on
vectorEstReturnedKeepsBuffer(P) ==
    denoise([returned(P, "vectorEstOrt") EXCEPT !.step = @ + 1])
vectorEstReturned(P) ==
    denoise([returned(P, "vectorEstOrt") EXCEPT
                !.latentBuffer = P.step + 1,
                !.step = @ + 1])

\* line 318: wavBatch.slice(0, wavLen) of a batch of wavBatchLength samples
audioDataUncut(wavBatchLength, wavLen) == wavBatchLength
audioData(wavBatchLength, wavLen) ==
    IF wavBatchLength < wavLen THEN wavBatchLength ELSE wavLen

\* lines 315-324: the vocoder has returned wavBatchLength samples; the chunk
\* is cut and handed to onAudioChunk
vocoderReturned(P, wavBatchLength) ==
    LET sampleRate == P.cfgs.ae.sample_rate
        wavLen == floorDiv(sampleRate * P.dur, Grain)
    IN  [returned(P, "vocoderOrt") EXCEPT
            !.pc = "returned",
            !.chunks = Append(@, [audio |-> audioData(wavBatchLength, wavLen),
                                  sampleRate |-> sampleRate,
                                  wav |-> wavBatchLength])]

\* the elements of a list
Range(list) == {list[k] : k \in 1..Len(list)}

\* the two ways an awaited promise settles
Settled == <<"resolved", "rejected">>

StyleSettles ==
    /\ probe.pc = "style"
    /\ \E o \in Range(Settled) :
         probe' = IF o = "resolved" THEN styleLoaded(probe) ELSE synthThrows(probe)
    /\ UNCHANGED <<worker, main>>

DpSettles ==
    /\ probe.pc = "dp"
    /\ \/ \E n \in 0..MaxDur : probe' = dpReturned(probe, n)
       \/ probe' = synthThrows(probe)
    /\ UNCHANGED <<worker, main>>

TextEncSettles ==
    /\ probe.pc = "enc"
    /\ \E o \in Range(Settled) :
         probe' = IF o = "resolved" THEN textEncReturned(probe)
                  ELSE synthThrows(probe)
    /\ UNCHANGED <<worker, main>>

VectorEstSettles ==
    /\ probe.pc = "est"
    /\ \E o \in Range(Settled) :
         probe' = IF o = "resolved" THEN vectorEstReturned(probe)
                  ELSE synthThrows(probe)
    /\ UNCHANGED <<worker, main>>

VocoderSettles ==
    /\ probe.pc = "voc"
    /\ \/ \E n \in 0..MaxSamples : probe' = vocoderReturned(probe, n)
       \/ probe' = synthThrows(probe)
    /\ UNCHANGED <<worker, main>>

InitSynth ==
    /\ worker = InitWorker
    /\ main = InitMain
    /\ probe \in SynthInputs

NextSynth ==
    \/ StyleSettles
    \/ DpSettles
    \/ TextEncSettles
    \/ VectorEstSettles
    \/ VocoderSettles

SpecSynth == InitSynth /\ [][NextSynth]_vars

(***************************************************************************)
(* The dispose of a synthesis handle (ai.worker.js 202-209) as a process.  *)
(* keys is Object.keys(models): the four sessions in the order in which    *)
(* their loads completed (tts.utils.js 171-176).  pc is "live" before      *)
(* dispose is called, "release" while a release() is awaited, "returned"   *)
(* or "thrown" afterwards; attempts lists the sessions release() was       *)
(* called on, outcomes how each call ended.                                *)
(***************************************************************************)
\* the keys of the models array of loadOnnxAll, in its order
SessionKeys == <<"dpOrt", "textEncOrt", "vectorEstOrt", "vocoderOrt">>

KeyOrders ==
    {ks \in [1..Len(SessionKeys) -> Range(SessionKeys)] :
        \A a, b \in 1..Len(SessionKeys) : ks[a] = ks[b] => a = b}

TtsHandles ==
    {[fn |-> "dispose", pc |-> "live", keys |-> ks, attempts |-> <<>>,
      outcomes |-> <<>>] : ks \in KeyOrders}

\* how a call of session.release() ends: its promise resolves or rejects, or
\* the call itself throws
ReleaseOutcomes == <<"rejected", "resolved", "thrown">>

\* lines 203-206: the loop reaches the key after the attempts made so far
\* and calls release() on its session, or is over
releaseNext(P) ==
    IF Len(P.attempts) < Len(P.keys)
    THEN [P EXCEPT !.pc = "release",
                   !.attempts = Append(@, P.keys[Len(P.attempts) + 1])]
    ELSE [P EXCEPT !.pc = "returned"]

\* line 206: the awaited release() has ended with outcome o; the catch
\* swallows a failure and the loop goes on
releaseSettledPropagates(P, o) ==
    IF o = "resolved"
    THEN releaseNext([P EXCEPT !.outcomes = Append(@, o)])
    ELSE [P EXCEPT !.outcomes = Append(@, o), !.pc = "thrown"]
releaseSettled(P, o) == releaseNext([P EXCEPT !.outcomes = Append(@, o)])

\* dispose() is called on the handle
TtsDispose ==
    /\ probe.pc = "live"
    /\ probe' = releaseNext(probe)
    /\ UNCHANGED <<worker, main>>

ReleaseSettles ==
    /\ probe.pc = "release"
    /\ \E o \in Range(ReleaseOutcomes) : probe' = releaseSettled(probe, o)
    /\ UNCHANGED <<worker, main>>

InitDispose ==
    /\ worker = InitWorker
    /\ main = InitMain
    /\ probe \in TtsHandles

NextDispose == TtsDispose \/ ReleaseSettles

SpecDispose == InitDispose /\ [][NextDispose]_vars

(***************************************************************************)
(* TtsPipeline.create (ai.worker.js 182-211) as a process: pc names the    *)
(* promise the call awaits ("cfgs", "models", "processors") or is          *)
(* "returned" or "thrown".  sessions tells for each of the four models of  *)
(* loadOnnxAll (tts.utils.js 158-179) whether its load is pending          *)
(* ("loading"), has failed, or has produced a session that is held         *)
(* ("created") or has been released; result lists the keys of the result   *)
(* object of loadOnnxAll in the order in which they were stored.           *)
(***************************************************************************)
InitCreate ==
    [fn |-> "create", pc |-> "cfgs",
     sessions |-> [k \in Range(SessionKeys) |-> "none"],
     result |-> <<>>]

\* ai.worker.js 184-187: the configuration has loaded; loadOnnxAll starts the
\* four loads at once and awaits them with Promise.all
cfgsLoaded(P) ==
    [P EXCEPT !.pc = "models", !.sessions = [k \in Range(SessionKeys) |-> "loading"]]

\* an awaited promise of create has rejected: create throws, nothing else runs
createThrows(P) == [P EXCEPT !.pc = "thrown"]

\* tts.utils.js 171-178 and ai.worker.js 197: the load of model k has
\* resolved with a session, which is stored in the result; Promise.all
\* resolves with the last of the four and loadProcessors is called
sessionCreated(P, k) ==
    LET P1 == [P EXCEPT !.sessions[k] = "created", !.result = Append(@, k)]
    IN  IF P.pc = "models" /\ \A j \in Range(SessionKeys) : P1.sessions[j] = "created"
        THEN [P1 EXCEPT !.pc = "processors"]
        ELSE P1

\* tts.utils.js 171-172: the load of model k has rejected; Promise.all
\* rejects with the first rejection while the other loads go on
sessionFailed(P, k) ==
    LET P1 == [P EXCEPT !.sessions[k] = "failed"]
    IN  IF P.pc = "models" THEN createThrows(P1) ELSE P1

\* ai.worker.js 197-210: the processors have loaded; the handle is returned
processorsLoaded(P) == [P EXCEPT !.pc = "returned"]

CfgsSettle ==
    /\ probe.pc = "cfgs"
    /\ \E o \in Range(Settled) :
         probe' = IF o = "resolved" THEN cfgsLoaded(probe) ELSE createThrows(probe)
    /\ UNCHANGED <<worker, main>>

SessionLoadSettles ==
    \E k \in Range(SessionKeys) :
      /\ probe.sessions[k] = "loading"
      /\ \E o \in Range(Settled) :
           probe' = IF o = "resolved" THEN sessionCreated(probe, k)
                    ELSE sessionFailed(probe, k)
      /\ UNCHANGED <<worker, main>>

ProcessorsSettle ==
    /\ probe.pc = "processors"
    /\ \E o \in Range(Settled) :
         probe' = IF o = "resolved" THEN processorsLoaded(probe)
                  ELSE createThrows(probe)
    /\ UNCHANGED <<worker, main>>

InitCreateSpec ==
    /\ worker = InitWorker
    /\ main = InitMain
    /\ probe = InitCreate

NextCreate == CfgsSettle \/ SessionLoadSettles \/ ProcessorsSettle

SpecCreate == InitCreateSpec /\ [][NextCreate]_vars

(***************************************************************************)
(* SpecMutex: one Mutex and its callers.                                   *)
(***************************************************************************)
InitMutexSpec ==
    /\ worker = InitWorker
    /\ main = InitMain
    /\ probe = InitCallers

CallerLocks ==
    \E c \in Callers :
      /\ probe.pc[c] = "out"
      /\ probe.nlocks < MaxLocks
      /\ probe' = callerLocks(probe, c)
      /\ UNCHANGED <<worker, main>>

CallerResumes ==
    \E c \in Callers :
      /\ probe.pc[c] = "resolved"
      /\ probe' = callerResumes(probe, c)
      /\ UNCHANGED <<worker, main>>

CallerUnlocks ==
    \E c \in Callers :
      /\ probe.pc[c] = "critical"
      /\ probe' = callerUnlocks(probe, c)
      /\ UNCHANGED <<worker, main>>

NextMutex == CallerLocks \/ CallerResumes \/ CallerUnlocks

SpecMutex == InitMutexSpec /\ [][NextMutex]_vars

(***************************************************************************)
(* SpecExclusive: callers of Mutex.runExclusive (mutex.js 28-35).  cb is   *)
(* what the caller's callback has done in the present call ("none" before  *)
(* it is called, "running" while its promise is awaited, then "returned",  *)
(* "rejected", or "threw" when the call itself threw) with the value or    *)
(* exception it produced; settled is how the promise of runExclusive has   *)
(* settled and with what; unlocks counts the call's unlock() calls.        *)
(***************************************************************************)
NoOutcome == [how |-> "none", val |-> "none"]

InitExclusive ==
    [fn |-> "runExclusive",
     mutex |-> InitMutex,
     pc |-> [c \in Callers |-> "out"],
     ticket |-> [c \in Callers |-> 0],
     via |-> [c \in Callers |-> "none"],
     nlocks |-> 0,
     cb |-> [c \in Callers |-> NoOutcome],
     settled |-> [c \in Callers |-> NoOutcome],
     unlocks |-> [c \in Callers |-> 0]]

\* the values a callback returns and the exceptions it throws
CallbackResults == {"v1", "v2"}

\* line 29: runExclusive is called and calls lock()
runExclusive(P, c) ==
    callerLocks([P EXCEPT !.cb[c] = NoOutcome,
                          !.settled[c] = NoOutcome,
                          !.unlocks[c] = 0], c)

\* lines 30-34 after the callback has ended with outcome o: the finally
\* block unlocks, then the promise of runExclusive settles as the callback did
leave(P, c, o) ==
    LET P1 == callerUnlocks([P EXCEPT !.cb[c] = o], c)
    IN  [P1 EXCEPT !.unlocks[c] = @ + 1,
                   !.settled[c] =
                       [how |-> IF o.how = "returned" THEN "resolved" ELSE "rejected",
                        val |-> o.val]]

\* lines 29-31: the lock is held and runExclusive resumes; the callback is
\* called and either throws at once or returns a promise that is awaited
callbackCalled(P, c, o) ==
    IF o.how = "threw" THEN leave(P, c, o)
    ELSE [callerResumes(P, c) EXCEPT !.cb[c] = [how |-> "running", val |-> "none"]]

\* line 31: the awaited promise of the callback has settled with outcome o
callbackSettledLeaksOnError(P, c, o) ==
    IF o.how = "returned" THEN leave(P, c, o)
    ELSE [P EXCEPT !.cb[c] = o, !.pc[c] = "out", !.ticket[c] = 0,
                   !.settled[c] = [how |-> "rejected", val |-> o.val]]
callbackSettled(P, c, o) == leave(P, c, o)

RunExclusive ==
    \E c \in Callers :
      /\ probe.pc[c] = "out"
      /\ probe.nlocks < MaxLocks
      /\ probe' = runExclusive(probe, c)
      /\ UNCHANGED <<worker, main>>

CallbackCalled ==
    \E c \in Callers :
      /\ probe.pc[c] = "resolved"
      /\ \E o \in {[how |-> "threw", val |-> v] : v \in CallbackResults}
                  \cup {[how |-> "running", val |-> "none"]} :
           probe' = callbackCalled(probe, c, o)
      /\ UNCHANGED <<worker, main>>

CallbackSettles ==
    \E c \in Callers :
      /\ probe.pc[c] = "critical"
      /\ \E h \in {"returned", "rejected"}, v \in CallbackResults :
           probe' = callbackSettled(probe, c, [how |-> h, val |-> v])
      /\ UNCHANGED <<worker, main>>

InitExclusiveSpec ==
    /\ worker = InitWorker
    /\ main = InitMain
    /\ probe = InitExclusive

NextExclusive == RunExclusive \/ CallbackCalled \/ CallbackSettles

SpecExclusive == InitExclusiveSpec /\ [][NextExclusive]_vars

\* unlock() is called by code that holds no lock, as the worker error
\* handlers of the multi-worker hook do (unnamed/part_005, lines 50-54 and
\* 83-87): the promises of the resolve functions taken from the queue are
\* resolved
strayUnlock(P) ==
    LET mx == unlock(P.mutex)
        woken == Queued(P.mutex) \ Queued(mx)
    IN  [P EXCEPT !.mutex = mx,
                  !.pc = [d \in Callers |-> IF d \in woken THEN "resolved" ELSE @[d]],
                  !.via = [d \in Callers |-> IF d \in woken THEN "handoff" ELSE @[d]]]

StrayUnlock ==
    /\ probe' = strayUnlock(probe)
    /\ UNCHANGED <<worker, main>>

\* SpecStray: the Mutex with its callers and with unlock calls of non-holders
NextStray == NextMutex \/ StrayUnlock

SpecStray == InitMutexSpec /\ [][NextStray]_vars

(***************************************************************************)
(* src/lib/workers/stt.worker.js: the standalone transcription worker.     *)
(* The state is the module's variables (initPromise, the three pipeline_   *)
(* promises, processing), the from_pretrained calls started so far, the    *)
(* position of every call of load() and generate() with the messages it   *)
(* has posted, and the messages posted by the module itself.               *)
(* A promise is the index of its from_pretrained call in loads, 0 for null.*)
(***************************************************************************)
MaxCmds == 3
MaxProgress == 1

\* the messages of the main thread: e.data.action and whether e.data.audio
\* is defined
SttCommands ==
    {[action |-> a, audio |-> TRUE] : a \in {"init", "load", "unknown"}}
    \cup {[action |-> a, audio |-> b] : a \in {"transcribe", "generate"}, b \in BOOLEAN}

\* lines 5-9 and 96: the module is evaluated, the import is in flight
InitStt(gpu) ==
    [fn |-> "stt", gpu |-> gpu, initPromise |-> "pending",
     pipeline_tokenizer |-> 0, pipeline_processor |-> 0, pipeline_model |-> 0,
     loads |-> <<>>, processing |-> FALSE, calls |-> <<>>,
     posts |-> <<"debug">>]

\* self.postMessage of messages with the given status fields, by call c
sttPost(P, c, statuses) ==
    IF c = 0 THEN [P EXCEPT !.posts = @ \o statuses]
    ELSE [P EXCEPT !.calls[c].posts = @ \o statuses]

\* an await of call c has thrown: the catch and finally of generate (lines
\* 165-169), the catch of load (lines 205-207)
sttThrows(P, c) ==
    LET P1 == sttPost(P, c, <<"error">>)
    IN  [P1 EXCEPT !.calls[c].pc = "done",
                   !.processing = IF P.calls[c].fn = "generate" THEN FALSE ELSE @]

\* getInstance has returned to call c: lines 114-143 of generate up to
\* `await processor(audio)`, where audio.length (line 116) throws for an
\* undefined audio; lines 190-196 of load up to the warm-up
\* `await model.generate`
acquired(P, c) ==
    IF P.calls[c].fn = "generate"
    THEN IF ~P.calls[c].audio
         THEN sttThrows(sttPost(P, c, <<"debug">>), c)
         ELSE [sttPost(P, c, <<"debug", "debug", "debug">>) EXCEPT
                  !.calls[c].pc = "processor"]
    ELSE [sttPost(P, c, <<"loading">>) EXCEPT !.calls[c].pc = "warmup"]

\* lines 90-92: the Promise.all of call c, when the promises it was given
\* have settled
allSettled(P, c) ==
    LET mine == P.calls[c].awaits
    IN  IF \E k \in 1..3 : P.loads[mine[k]].state = "rejected"
        THEN sttThrows(P, c)
        ELSE IF \A k \in 1..3 : P.loads[mine[k]].state = "resolved"
        THEN acquired(sttPost(P, c, <<"debug">>), c)
        ELSE P

\* lines 88-89: call c waits for the three promises the variables hold now
awaitAll(P, c) ==
    allSettled([sttPost(P, c, <<"debug">>) EXCEPT
                   !.calls[c].pc = "all",
                   !.calls[c].awaits = <<P.pipeline_tokenizer,
                                         P.pipeline_processor,
                                         P.pipeline_model>>], c)

\* from_pretrained is called for one of the three parts, with the progress
\* callback of call c
fromPretrained(P, c, what, device) ==
    [P EXCEPT !.loads = Append(@, [what |-> what, by |-> c, device |-> device,
                                   state |-> "pending"])]

\* lines 76-86: call c starts the loading of the model
startModel(P, c, device) ==
    LET P1 == fromPretrained(sttPost(P, c, <<"debug">>), c, "model", device)
    IN  awaitAll([P1 EXCEPT !.pipeline_model = Len(P1.loads)], c)

\* getInstance after `await initPromise`, lines 40-74, up to the next await
getInstance(P, c) ==
    LET P0 == sttPost(P, c, <<"debug">>)
        P1 == IF P0.pipeline_tokenizer = 0
              THEN LET Q == fromPretrained(sttPost(P0, c, <<"debug">>), c,
                                           "tokenizer", "none")
                   IN  [Q EXCEPT !.pipeline_tokenizer = Len(Q.loads)]
              ELSE P0
        P2 == IF P1.pipeline_processor = 0
              THEN LET Q == fromPretrained(sttPost(P1, c, <<"debug">>), c,
                                           "processor", "none")
                   IN  [Q EXCEPT !.pipeline_processor = Len(Q.loads)]
              ELSE P1
    IN  IF P2.pipeline_model # 0 THEN awaitAll(P2, c)
        ELSE IF P2.gpu THEN [P2 EXCEPT !.calls[c].pc = "adapter"]
        ELSE startModel(P2, c, "wasm")

\* the promise call c awaits has settled: its code runs up to the next await
sttResume(P, c) ==
    CASE P.calls[c].pc = "init" ->
           IF P.initPromise = "resolved" THEN getInstance(P, c)
           ELSE IF P.initPromise = "rejected" THEN sttThrows(P, c)
           ELSE P
      [] P.calls[c].pc = "all" -> allSettled(P, c)
      [] OTHER -> P

\* the calls waiting for one promise are resumed in the order they awaited
RECURSIVE sttResumeAll(_, _)
sttResumeAll(P, c) ==
    IF c > Len(P.calls) THEN P ELSE sttResumeAll(sttResume(P, c), c + 1)

\* lines 10-27: the dynamic import has settled
importSettled(P, ok) ==
    sttResumeAll(
        [sttPost(P, 0, <<IF ok THEN "debug" ELSE "error">>) EXCEPT
            !.initPromise = IF ok THEN "resolved" ELSE "rejected"], 1)

\* lines 64-75: requestAdapter has settled for call c, with an adapter, with
\* null or by rejecting
adapterSettled(P, c, outcome) ==
    startModel(P, c, IF outcome = "adapter" THEN "webgpu" ELSE "wasm")

\* lines 184-188: the library reports the progress of a load that load()
\* started, by the callback load() passed to getInstance
progressCallback(P, l) == sttPost(P, P.loads[l].by, <<"progress">>)

\* the progress messages call c has posted
Progressed(P, c) ==
    Cardinality({k \in 1..Len(P.calls[c].posts) : P.calls[c].posts[k] = "progress"})

\* a from_pretrained promise has settled: the calls whose Promise.all (line
\* 90) settles with it go on
fromPretrainedSettled(P, l, ok) ==
    sttResumeAll(
        [P EXCEPT !.loads[l].state = IF ok THEN "resolved" ELSE "rejected"], 1)

\* lines 143-146: processor(audio) has settled
processorSettled(P, c, ok) ==
    IF ok
    THEN [sttPost(P, c, <<"debug", "debug">>) EXCEPT !.calls[c].pc = "generating"]
    ELSE sttThrows(P, c)

\* callback_function, lines 120-134: the streamer has a token while
\* model.generate is pending
callback_function(P, c) ==
    [sttPost(P, c, <<"debug", "update">>) EXCEPT !.calls[c].numTokens = @ + 1]

\* lines 147-169: model.generate has settled: it rejected, or it resolved
\* and batch_decode (line 154) returned or threw; the finally block clears
\* the flag
generateSettledKeepsFlag(P, c, outcome) ==
    CASE outcome = "decoded" ->
           [sttPost(P, c, <<"debug", "debug", "debug", "complete", "debug">>) EXCEPT
               !.calls[c].pc = "done"]
      [] outcome = "decode throws" -> sttThrows(sttPost(P, c, <<"debug", "debug">>), c)
      [] OTHER -> sttThrows(P, c)
generateSettled(P, c, outcome) ==
    CASE outcome = "decoded" ->
           [sttPost(P, c, <<"debug", "debug", "debug", "complete", "debug">>) EXCEPT
               !.calls[c].pc = "done",
               !.processing = FALSE]
      [] outcome = "decode throws" -> sttThrows(sttPost(P, c, <<"debug", "debug">>), c)
      [] OTHER -> sttThrows(P, c)

\* lines 196-207: the warm-up model.generate of load has settled
warmupSettled(P, c, ok) ==
    IF ok
    THEN [sttPost(P, c, <<"debug", "ready">>) EXCEPT !.calls[c].pc = "done"]
    ELSE sttThrows(P, c)

\* generate, lines 98-113, as call c
generate(P, c) ==
    IF P.processing
    THEN [sttPost(P, c, <<"debug">>) EXCEPT !.calls[c].fn = "generate"]
    ELSE sttResume([sttPost(P, c, <<"debug", "start", "debug">>) EXCEPT
                       !.processing = TRUE,
                       !.calls[c].fn = "generate",
                       !.calls[c].pc = "init"], c)

\* load, lines 173-184, as call c
load(P, c) ==
    sttResume([sttPost(P, c, <<"debug", "loading">>) EXCEPT
                  !.calls[c].fn = "load",
                  !.calls[c].pc = "init"], c)

\* the message listener, lines 210-229
sttListener(P, m) ==
    LET c == Len(P.calls) + 1
        P1 == sttPost([P EXCEPT !.calls = Append(@,
                          [fn |-> "none", audio |-> m.audio, pc |-> "done",
                           awaits |-> <<>>, numTokens |-> 0, posts |-> <<>>])],
                      c, <<"debug">>)
    IN  CASE m.action \in {"init", "load"} -> load(P1, c)
          [] m.action \in {"transcribe", "generate"} -> generate(P1, c)
          [] OTHER -> P1

SttReceives ==
    /\ Len(probe.calls) < MaxCmds
    /\ \E m \in SttCommands : probe' = sttListener(probe, m)
    /\ UNCHANGED <<worker, main>>

ImportSettles ==
    /\ probe.initPromise = "pending"
    /\ \E ok \in BOOLEAN : probe' = importSettled(probe, ok)
    /\ UNCHANGED <<worker, main>>

AdapterSettles ==
    \E c \in 1..Len(probe.calls) :
      /\ probe.calls[c].pc = "adapter"
      /\ \E outcome \in {"adapter", "null", "rejected"} :
           probe' = adapterSettled(probe, c, outcome)
      /\ UNCHANGED <<worker, main>>

FromPretrainedSettles ==
    \E l \in 1..Len(probe.loads) :
      /\ probe.loads[l].state = "pending"
      /\ \E ok \in BOOLEAN : probe' = fromPretrainedSettled(probe, l, ok)
      /\ UNCHANGED <<worker, main>>

ProcessorSettles ==
    \E c \in 1..Len(probe.calls) :
      /\ probe.calls[c].pc = "processor"
      /\ \E ok \in BOOLEAN : probe' = processorSettled(probe, c, ok)
      /\ UNCHANGED <<worker, main>>

GenerateSettles ==
    \E c \in 1..Len(probe.calls) :
      /\ probe.calls[c].pc = "generating"
      /\ \E outcome \in {"decoded", "decode throws", "rejected"} :
           probe' = generateSettled(probe, c, outcome)
      /\ UNCHANGED <<worker, main>>

StreamerCalls ==
    \E c \in 1..Len(probe.calls) :
      /\ probe.calls[c].pc = "generating"
      /\ probe.calls[c].numTokens < MaxFrags
      /\ probe' = callback_function(probe, c)
      /\ UNCHANGED <<worker, main>>

ProgressReported ==
    \E l \in 1..Len(probe.loads) :
      /\ probe.loads[l].state = "pending"
      /\ probe.calls[probe.loads[l].by].fn = "load"
      /\ Progressed(probe, probe.loads[l].by) < MaxProgress
      /\ probe' = progressCallback(probe, l)
      /\ UNCHANGED <<worker, main>>

WarmupSettles ==
    \E c \in 1..Len(probe.calls) :
      /\ probe.calls[c].pc = "warmup"
      /\ \E ok \in BOOLEAN : probe' = warmupSettled(probe, c, ok)
      /\ UNCHANGED <<worker, main>>

InitSttSpec ==
    /\ worker = InitWorker
    /\ main = InitMain
    /\ \E gpu \in BOOLEAN : probe = InitStt(gpu)

NextStt ==
    \/ SttReceives \/ ImportSettles \/ AdapterSettles \/ FromPretrainedSettles
    \/ ProcessorSettles \/ GenerateSettles \/ WarmupSettles
    \/ StreamerCalls \/ ProgressReported

SpecStt == InitSttSpec /\ [][NextStt]_vars

(***************************************************************************)
(* SpecOrch: the hook, mounted, with its worker; the application calls     *)
(* processAudio at any time.                                               *)
(***************************************************************************)
InitOrch ==
    /\ worker = InitWorker
    /\ main = mount(InitMain)
    /\ probe = NoProbe

HookStep ==
    \/ ProcessAudio
    \/ LockResolves
    \/ Receive
    \/ Deliver
    \/ FinalTimer
    \/ ErrorTimer

NextOrch == HookStep \/ WorkerStep

SpecOrch == InitOrch /\ [][NextOrch]_vars

(***************************************************************************)
(* FairSpecOrch: SpecOrch with both event loops running every task that    *)
(* stays ready; only the application's calls of processAudio may stop.     *)
(***************************************************************************)
FairSpecOrch ==
    /\ SpecOrch
    /\ WF_vars(LockResolves)
    /\ WF_vars(Receive)
    /\ WF_vars(Deliver)
    /\ WF_vars(FinalTimer)
    /\ WF_vars(ErrorTimer)
    /\ WF_vars(DisposeSettles)
    /\ WF_vars(SetupSettles)
    /\ WF_vars(InferenceSettles)
    /\ WF_vars(InferenceStreams)
    /\ WF_vars(PreloadCreateSettles)
    /\ WF_vars(PreloadDisposeSettles)

(***************************************************************************)
(* Properties.                                                             *)
(***************************************************************************)
\* the handle has been created by a setup function and dispose has not been
\* called on it
Live(h) == worker.handles[h].state = "live"

LiveHandles == {h \in Slots : Live(h)}

\* C1: when every switchPipeline call settles before the next one starts, at
\* most one handle has been created by a setup function and not yet had
\* dispose called on it
C1_AtMostOneLive == Cardinality(LiveHandles) <= 1

\* a second capability has been set up after the first one was disposed of
C1_Witness ==
    \E g, h \in Slots :
      /\ worker.handles[g].state = "disposed"
      /\ Live(h)
      /\ worker.currentPipeline = h

\* C2: in any interleaving of the worker's commands, at most one capability
\* holds undisposed sessions
C2_AtMostOneUndisposed ==
    \A g, h \in Slots : Live(g) /\ Live(h) => g = h

\* C3: a switchPipeline call made while the requested kind is resident returns
\* the resident handle, calls neither dispose nor the setup function, posts no
\* 'Initializing' notification and leaves currentType and currentPipeline as
\* they were
C3_FastPathStep ==
    \A i \in Slots :
      ( /\ worker.nrecv + 1 = i
        /\ worker'.nrecv = i
        /\ worker'.handlers[i].pc \in {"disposing", "setup", "infer"}
        /\ worker.currentPipeline # NoHandle
        /\ worker.currentType = TypeOf(worker'.handlers[i].action) )
      => /\ worker'.handlers[i].ret = worker.currentPipeline
         /\ worker'.handlers[i].pc = "infer"
         /\ worker'.step.disposes = 0
         /\ worker'.step.setups = 0
         /\ worker'.step.notices = 0
         /\ worker'.handles = worker.handles
         /\ worker'.outbox = worker.outbox
         /\ worker'.currentPipeline = worker.currentPipeline
         /\ worker'.currentType = worker.currentType

C3_FastPath == [][C3_FastPathStep]_vars

\* a call has returned the resident handle by the fast path
C3_Witness ==
    \E i \in Slots :
      /\ worker.handlers[i].fast
      /\ worker.handlers[i].pc = "infer"
      /\ worker.handlers[i].ret = worker.currentPipeline
      /\ worker.handlers[i].ret # i

\* C4: when switchPipeline is called while another kind is resident, its
\* dispose call on the resident handle has settled before its setup function
\* is invoked
C4_DisposeBeforeSetup ==
    \A i \in Slots :
      ( /\ worker.handlers[i].pc \in {"setup", "infer"}
        /\ ~worker.handlers[i].fast
        /\ worker.handlers[i].entry # NoHandle )
      => /\ worker.handlers[i].victim = worker.handlers[i].entry
         /\ worker.handlers[i].dcall \in {"resolved", "rejected"}

\* a setup function is running after the dispose of the handle that was
\* resident at the call has settled
C4_Witness ==
    \E i \in Slots :
      /\ worker.handlers[i].pc = "setup"
      /\ worker.handlers[i].entry # NoHandle
      /\ worker.handlers[i].dcall = "resolved"

\* C5: a dispose that rejects does not end the switchPipeline call: residency
\* is cleared, the setup function is invoked, and when that resolves the new
\* handle is resident and returned
C5_RejectedDisposeStep ==
    \A i \in Slots :
      /\ ( /\ worker.handlers[i].pc = "disposing"
           /\ worker'.handlers[i].dcall = "rejected" )
         => /\ worker'.handlers[i].pc = "setup"
            /\ worker'.step.setups = 1
            /\ worker'.currentPipeline = NoHandle
            /\ worker'.currentType = "null"
            /\ worker'.handles[worker.handlers[i].victim].state = "disposed"
      /\ ( /\ worker.handlers[i].pc = "setup"
           /\ worker.handlers[i].dcall = "rejected"
           /\ worker'.handlers[i].pc = "infer" )
         => /\ worker'.currentPipeline = i
            /\ worker'.currentType = TypeOf(worker.handlers[i].action)
            /\ worker'.handlers[i].ret = i
            /\ worker'.handles[i].state = "live"

C5_DisposeErrorSwallowed ==
    /\ [][C5_RejectedDisposeStep]_vars
    /\ [](\A i \in Slots : worker.handlers[i].errFrom # "dispose")

\* a call whose dispose rejected has returned the handle its setup created
C5_Witness ==
    \E i \in Slots :
      /\ worker.handlers[i].dcall = "rejected"
      /\ worker.handlers[i].pc = "infer"
      /\ worker.handlers[i].ret = i
      /\ worker.currentPipeline = i

\* C6: when the setup function has failed and the error reaches the caller,
\* dispose of the handle resident at the call has been attempted and
\* currentPipeline and currentType are both null
C6_FailureLeavesNothingResident ==
    worker.step.failed =>
      /\ worker.step.attempted
      /\ worker.currentPipeline = NoHandle
      /\ worker.currentType = "null"

\* the out-of-memory signature of the catch block
IsAllocationFailure(err) ==
    \/ err.name = "RangeError"
    \/ /\ err.message # Undefined
       /\ Includes(err.message, StrAllocation)

\* C7: a failed setup makes switchPipeline throw the out-of-memory error
\* exactly when the failure is a RangeError or its message contains
\* 'allocation', and rethrow every other value unchanged
C7_Classification ==
    worker.step.failed =>
      /\ (worker.step.thrown = ErrOutOfMemory)
           <=> IsAllocationFailure(worker.step.err)
      /\ ~IsAllocationFailure(worker.step.err)
           => worker.step.thrown = worker.step.err

\* C8: no capability created by the preload handler holds sessions while the
\* manager has a resident capability
C8_PreloadApartFromResident ==
    \A i \in Slots :
      worker.handlers[i].ph = "held" => worker.currentPipeline = NoHandle

\* the calls of processAudio that hold the lock: those about to go on after
\* `await lock()` and those in a stage of a turn
InFlight ==
    {t \in Calls : main.turns[t].pc \in {"admitted", "stt", "chat", "tts", "finishing"}}

\* C9 (the call): a processAudio call made while the mutex is held changes
\* neither status, transcript nor response, posts nothing to the worker and
\* leaves the mutex, its queue included, as it was
C9_DroppedCallStep ==
    (main'.calls = main.calls + 1 /\ isLocked(main.mutex))
    => /\ main'.status = main.status
       /\ main'.transcript = main.transcript
       /\ main'.response = main.response
       /\ main'.posted = main.posted
       /\ main'.nsent = main.nsent
       /\ main'.mutex = main.mutex
       /\ main'.errTimers = main.errTimers
       /\ main'.turns[main'.calls].pc = "dropped"
       /\ \A t \in Calls : t # main'.calls => main'.turns[t] = main.turns[t]

\* C9 (the state): nobody ever waits on the mutex, at most one turn is in
\* flight, and a call has set the status to 'transcribing' once if it was
\* admitted and never if it was dropped
C9_OneTurnState ==
    /\ main.mutex._queue = <<>>
    /\ Cardinality(InFlight) <= 1
    /\ InFlight # {} => isLocked(main.mutex)
    /\ \A t \in Calls :
         /\ main.turns[t].pc \in {"stt", "chat", "tts", "finishing", "done", "failed"}
              => main.turns[t].entered = 1
         /\ main.turns[t].pc \in {"none", "dropped", "admitted"}
              => main.turns[t].entered = 0
         /\ main.turns[t].pc # "waiting"

\* C9: a processAudio call made while the mutex is held has no effect, so at
\* most one turn is in flight and each admitted turn sets 'transcribing' once
C9_SecondCallDropped ==
    /\ [][C9_DroppedCallStep]_vars
    /\ []C9_OneTurnState

\* a call has been dropped while an earlier one, made in the same task, has
\* taken the lock and not yet gone on
C9_DroppedInSameTask ==
    \E t, u \in Calls :
      /\ main.turns[t].pc = "admitted"
      /\ main.turns[u].pc = "dropped"
      /\ t < u

\* a call has been dropped while an earlier one is in the middle of its turn
C9_Witness ==
    \E t, u \in Calls :
      /\ main.turns[t].pc \in {"stt", "chat", "tts"}
      /\ main.turns[t].entered = 1
      /\ main.turns[u].pc = "dropped"
      /\ t < u

\* the worker has posted an error message from the handler activation that
\* runs the command of the present stage of a turn
StageErrorReported ==
    \E t \in Calls :
      /\ main.turns[t].pc \in {"stt", "chat", "tts"}
      /\ \E k \in DOMAIN worker.outbox :
           /\ worker.outbox[k].status = "error"
           /\ worker.outbox[k].by = main.turns[t].slot

\* C10: whenever the worker reports an error for the stage in progress, the
\* orchestrator eventually releases the mutex and sets status to 'error'
C10_StageErrorReleases ==
    StageErrorReported ~> (main.status = "error" /\ ~isLocked(main.mutex))

\* the message the main thread's event loop takes next is the 'complete' that
\* the handler activation of the present stage of turn t has posted
OwnComplete(t) ==
    /\ worker.outbox # <<>>
    /\ Head(worker.outbox).status = "complete"
    /\ Head(worker.outbox).by = main.turns[t].slot

\* C11: a turn leaves its generation stage, and its synthesis stage, only on
\* the 'complete' message of the command it posted for that stage, whatever
\* the preload command posted at mount does in between
C11_StageEndStep ==
    \A t \in Calls :
      /\ (main.turns[t].pc = "chat" /\ main'.turns[t].pc # "chat") => OwnComplete(t)
      /\ (main.turns[t].pc = "tts" /\ main'.turns[t].pc # "tts") => OwnComplete(t)

C11_StageEndsOnOwnComplete == [][C11_StageEndStep]_vars

\* the status shown while a turn is in a stage is the status of that stage
C12_StatusFollowsStage ==
    \A t \in Calls :
      /\ main.turns[t].pc = "stt" => main.status = "transcribing"
      /\ main.turns[t].pc = "chat" => main.status = "thinking"
      /\ main.turns[t].pc \in {"tts", "finishing"} => main.status = "speaking"

\* a call moves from stage to stage in the order of the state machine, sets
\* the status of the stage it enters and posts that stage's command, once
C12_TurnStep ==
    \A t \in Calls :
      LET a == main.turns[t].pc
          b == main'.turns[t].pc
      IN  a # b =>
            \/ /\ a = "none" /\ b = "dropped"
            \/ /\ a = "none" /\ b = "stt"
               /\ main'.status = "transcribing"
               /\ main'.posted = Append(main.posted, Cmd("transcribe", <<>>))
            \/ /\ a \in {"none", "stt"} /\ b = "failed"
               /\ main'.status = "error"
               /\ main'.posted = main.posted
            \/ /\ a = "stt" /\ b = "chat"
               /\ main'.status = "thinking"
               /\ main'.posted = Append(main.posted, Cmd("chat", <<>>))
            \/ /\ a = "chat" /\ b = "tts"
               /\ main'.status = "speaking"
               /\ main'.posted = Append(main.posted, Cmd("speak", main.turns[t].reply))
            \/ /\ a = "tts" /\ b = "finishing"
               /\ main'.status = main.status
               /\ main'.posted = main.posted
            \/ /\ a = "finishing" /\ b = "done"
               /\ main'.status = "idle"
               /\ main'.posted = main.posted

\* C12: within an admitted turn the status takes the values transcribing,
\* thinking, speaking, idle in that order, cut short only by 'error', and the
\* transcribe, chat and speak commands are posted once each in that order
C12_StatusSequence ==
    /\ []C12_StatusFollowsStage
    /\ [][C12_TurnStep]_vars

\* the fragments of the generation of handler activation s that are posted
\* and not yet taken by the main thread, in posting order
PendingFragments(s) ==
    LET ups == SelectSeq(worker.outbox,
                         LAMBDA m : m.status = "update" /\ ~m.data /\ m.by = s)
    IN  [k \in 1..Len(ups) |-> ups[k].output]

\* while the generation of a turn runs, the reply accumulated so far followed
\* by the fragments still on the port is what the generation has emitted
C13_ReplyTracksStream ==
    \A t \in Calls :
      ( /\ main.turns[t].pc = "chat"
        /\ worker.handlers[main.turns[t].slot].pc # "done" )
      => main.turns[t].reply \o PendingFragments(main.turns[t].slot)
           = Streamed(worker.handlers[main.turns[t].slot].emitted)

\* the reply is taken as final only when the generation has ended and its
\* 'complete', which follows every fragment on the port, has arrived
C13_ReplyFinalStep ==
    \A t \in Calls :
      (main.turns[t].pc = "chat" /\ main'.turns[t].pc = "tts")
      => /\ worker.handlers[main.turns[t].slot].pc = "done"
         /\ OwnComplete(t)
         /\ PendingFragments(main.turns[t].slot) = <<>>

\* C13: the reply a turn accumulates and appends to the conversation is the
\* concatenation, in posting order, of exactly the fragments the worker
\* emitted for that turn's generation, each once
C13_ReplyIsStream ==
    /\ []C13_ReplyTracksStream
    /\ [][C13_ReplyFinalStep]_vars

\* C14: an interrupt processed after a chat command was received and before
\* that command has posted complete leaves the cancel flag set for the
\* between-step checks of the generation
C14_InterruptReachesGeneration ==
    \A i \in Slots :
      ( /\ worker.handlers[i].action = "chat"
        /\ worker.handlers[i].pc = "infer"
        /\ worker.handlers[i].intr )
      => worker.interrupted

\* a text in parentheses, with no parenthesis inside
SingleMarker(t) ==
    /\ Len(t) >= 2
    /\ t[1] = "(" /\ t[Len(t)] = ")"
    /\ \A k \in 2..(Len(t) - 1) : t[k] \notin {"(", ")"}

\* the text has no line break
OneLine(t) == \A k \in 1..Len(t) : t[k] \notin LineBreaks

\* words: at least two characters, letters and spaces only
PlainUtterance(t) ==
    /\ Len(t) >= 2
    /\ \A k \in 1..Len(t) : t[k] \in {"h", " "}

\* C15: handleTranscribe reports the no-speech error and posts no complete
\* when the trimmed transcription is empty, shorter than 2 characters or a
\* single parenthesised marker; a plain utterance is posted as complete with
\* its trimmed text
C15_NoSpeechFilter ==
    (probe.fn = "transcribe" /\ probe.done) =>
      LET t == Trim(probe.text)
      IN  /\ (Len(t) < 2 \/ SingleMarker(t))
               => /\ worker.outbox = <<Msg("error", 1)>>
                  /\ worker.handlers[1].errFrom = "filter"
          /\ PlainUtterance(t)
               => worker.outbox =
                    <<[Msg("complete", 1) EXCEPT !.text = t, !.chunks = TRUE]>>

\* the part of C15 that holds: the same with a marker that is on one line
C15_OneLineMarkerFiltered ==
    (probe.fn = "transcribe" /\ probe.done) =>
      LET t == Trim(probe.text)
      IN  /\ (Len(t) < 2 \/ (SingleMarker(t) /\ OneLine(t)))
               => /\ worker.outbox = <<Msg("error", 1)>>
                  /\ worker.handlers[1].errFrom = "filter"
          /\ PlainUtterance(t)
               => worker.outbox =
                    <<[Msg("complete", 1) EXCEPT !.text = t, !.chunks = TRUE]>>

\* a text in square brackets, with neither a bracket nor a line break inside
BracketMarker(t) ==
    /\ Len(t) >= 2
    /\ t[1] = "[" /\ t[Len(t)] = "]"
    /\ \A k \in 2..(Len(t) - 1) : t[k] \notin {"[", "]"} \cup LineBreaks

\* C16: a transcription that consists solely of a square-bracketed marker is
\* classified as no-speech and is not posted as a transcription result
C16_BracketMarkerRejected ==
    (probe.fn = "transcribe" /\ probe.done /\ BracketMarker(Trim(probe.text)))
    => /\ worker.handlers[1].errFrom = "filter"
       /\ \A k \in DOMAIN worker.outbox : worker.outbox[k].status # "complete"

\* C17: the conversation handed to the chat template starts with a system
\* turn, followed by the caller's turns in their original order
C17_LeadingSystemTurn ==
    (probe.fn = "chat" /\ probe.done) =>
      /\ probe.out # <<>>
      /\ probe.out[1].role = "system"
      /\ probe.out = probe.messages \/ Tail(probe.out) = probe.messages

\* C20: a speak command whose text is empty after sanitization is answered
\* with an error, not with a completion
C20_EmptyUtteranceIsError ==
    (probe.fn = "speak" /\ probe.done /\ Trim(StripThink(probe.text)) = <<>>)
    => /\ \E k \in DOMAIN worker.outbox : worker.outbox[k].status = "error"
       /\ \A k \in DOMAIN worker.outbox : worker.outbox[k].status # "complete"

\* the preload handler's stages come in the order of PreloadKinds, it posts
\* nothing before its end and one 'complete' at its end
C18_PreloadStep ==
    \A i \in Slots :
      LET h == worker.handlers[i]
          g == worker'.handlers[i]
      IN  /\ (h.action = "none" /\ g.action = "preload")
               => /\ g.pstage = 1
                  /\ PreloadKinds[g.pstage] = "stt"
                  /\ worker'.outbox = worker.outbox
          /\ (h.action = "preload" /\ g # h)
               => IF g.pc = "done"
                  THEN /\ h.pstage = Len(PreloadKinds)
                       /\ worker'.outbox = Append(worker.outbox, Msg("complete", i))
                  ELSE /\ g.pstage \in {h.pstage, h.pstage + 1}
                       /\ g.pstage > h.pstage => g.pc = "pl_create"
                       /\ worker'.outbox = worker.outbox

\* in the task in which a capability of the preload handler has been created,
\* dispose has been called on it and no further create call has been made
C18_DisposeBeforeNextCreate ==
    worker.step.created =>
      /\ worker.step.pdisposes = 1
      /\ worker.step.pcreates = 0
      /\ \E i \in Slots : /\ worker.handlers[i].pc = "pl_dispose"
                          /\ worker.handlers[i].ph = "held"

\* C18: the preload handler creates the three capabilities one after another
\* in the order transcription, generation, synthesis, calls dispose on each
\* created one before it starts creating the next, and posts exactly one
\* 'complete' at its end, whatever failed
C18_PreloadSequence ==
    /\ [][C18_PreloadStep]_vars
    /\ []C18_DisposeBeforeNextCreate

\* the preload handler, started by the first command of the mounted hook,
\* has ended and its 'complete' is on the port
C18_Witness ==
    /\ main.mounted
    /\ worker.handlers[1].pc = "done"
    /\ \E k \in DOMAIN worker.outbox : worker.outbox[k] = Msg("complete", 1)

\* the end of a speak command that has reached the synthesis: on success one
\* audio_chunk and then complete, on failure only the error
C19_SpeakStep ==
    \A i \in Slots :
      LET h == worker.handlers[i]
          g == worker'.handlers[i]
      IN  /\ (h.action = "speak" /\ h.pc = "infer" /\ g # h)
               => /\ g.pc = "done"
                  /\ IF g.errFrom = "none"
                     THEN worker'.outbox =
                            worker.outbox \o <<Msg("audio_chunk", i), Msg("complete", i)>>
                     ELSE /\ g.errFrom = "infer"
                          /\ worker'.outbox = Append(worker.outbox, Msg("error", i))
          /\ (h.action = "speak" /\ h.pc \in {"disposing", "setup"} /\ g # h)
               => \/ g.pc # "done" /\ worker'.outbox = worker.outbox
                  \/ /\ g.pc = "done" /\ g.errFrom = "setup"
                     /\ worker'.outbox = Append(worker.outbox, Msg("error", i))

\* C19: a speak command with speakable text that succeeds posts exactly one
\* audio_chunk and posts it before its complete; one that fails posts neither
C19_OneChunkBeforeComplete == [][C19_SpeakStep]_vars

\* a synthesis has ended: its audio_chunk and its complete are on the port
C19_Witness ==
    \E k \in DOMAIN worker.outbox :
      /\ worker.outbox[k].status = "audio_chunk"
      /\ k + 1 \in DOMAIN worker.outbox
      /\ worker.outbox[k + 1] = Msg("complete", worker.outbox[k].by)

\* C29: whenever the status is 'idle' the mutex is not held, whatever the
\* timing of processAudio calls and of the delayed status resets
C29_IdleMeansUnlocked == main.status = "idle" => ~isLocked(main.mutex)

\* C30: no handler runs inference on a capability handle on which dispose has
\* been invoked
C30_NoInferenceOnDisposed ==
    \A i \in Slots :
      worker.handlers[i].pc = "infer"
      => worker.handles[worker.handlers[i].ret].state = "live"

\* the final timer of a turn: the step that takes the call out of
\* "finishing" sets the status to 'idle' and leaves the mutex released, by
\* the call's one and only unlock()
C28_FinalStep ==
    \A t \in Calls :
      (main.turns[t].pc = "finishing" /\ main'.turns[t].pc # "finishing")
      => /\ main'.turns[t].pc = "done"
         /\ main'.status = "idle"
         /\ ~isLocked(main'.mutex)
         /\ main.turns[t].unlocks = 0
         /\ main'.turns[t].unlocks = 1

\* a call never unlocks twice, and not before its stages are over
C28_UnlockOnce ==
    \A t \in Calls :
      /\ main.turns[t].unlocks <= 1
      /\ main.turns[t].pc \in {"stt", "chat", "tts", "finishing"}
         => main.turns[t].unlocks = 0
      /\ main.turns[t].pc = "done" => main.turns[t].unlocks = 1

\* C28: when the three stages of a turn have completed, the orchestrator
\* eventually sets the status to 'idle' and releases the mutex, and the call
\* has called unlock exactly once
C28_TurnReleased ==
    /\ \A t \in Calls :
         (main.turns[t].pc = "finishing") ~> (main.turns[t].pc = "done")
    /\ [][C28_FinalStep]_vars
    /\ []C28_UnlockOnce

C28_Witness ==
    \E t \in Calls :
      /\ main.turns[t].pc = "done"
      /\ main.turns[t].unlocks = 1
      /\ main.status = "idle"
      /\ ~isLocked(main.mutex)

\* the callers whose lock() promise is pending
Waiters(P) == {c \in Callers : P.pc[c] = "waiting"}

\* the callers whose lock() promise is resolved and who have not unlocked
Holders(P) == {c \in Callers : P.pc[c] \in {"resolved", "critical"}}

\* a step in which a caller calls unlock() while callers wait: the waiter
\* whose lock() call was the earliest is admitted, every other waiter stays
\* waiting; an unlock() without waiters admits nobody
C25_UnlockStep ==
    \A c \in Callers :
      (probe.pc[c] = "critical" /\ probe'.pc[c] = "out")
      => IF Waiters(probe) = {}
         THEN Holders(probe') = {}
         ELSE \E w \in Waiters(probe) :
                /\ \A v \in Waiters(probe) : probe.ticket[w] <= probe.ticket[v]
                /\ Holders(probe') = {w}
                /\ Waiters(probe') = Waiters(probe) \ {w}

\* C25: with several callers waiting on lock(), each unlock() admits exactly
\* one waiter, in the order in which they called lock()
C25_FifoAdmission == [][C25_UnlockStep]_vars

C25_Witness ==
    \E c, d \in Callers :
      /\ probe.pc[c] = "resolved"
      /\ probe.via[c] = "handoff"
      /\ probe.pc[d] = "waiting"
      /\ probe.ticket[c] < probe.ticket[d]

\* C27: at most one caller is between the resolution of its lock() and its
\* unlock(), and isLocked() is true for as long as there is one, the hand-off
\* from one caller to the next included
C27_MutualExclusion ==
    /\ Cardinality(Holders(probe)) <= 1
    /\ Holders(probe) # {} => isLocked(probe.mutex)
    /\ Waiters(probe) # {} => isLocked(probe.mutex)

C27_Witness ==
    \E c, d \in Callers :
      /\ probe.pc[c] = "critical"
      /\ probe.via[c] = "handoff"
      /\ probe.pc[d] = "waiting"
      /\ isLocked(probe.mutex)

\* mask is the mask of the batch of lengths L: one row for each length, every
\* row as wide as the greatest length, the entry at index j being 1 exactly
\* when j is less than the row's length
IsMaskOf(mask, L) ==
    /\ Len(mask) = Len(L)
    /\ \A i \in 1..Len(L) :
         /\ Len(mask[i]) = 1
         /\ \A k \in 1..Len(L) : L[k] <= Len(mask[i][1])
         /\ \E k \in 1..Len(L) : L[k] = Len(mask[i][1])
         /\ \A j \in 0..(Len(mask[i][1]) - 1) :
              mask[i][1][j + 1] = (IF j < L[i] THEN 1 ELSE 0)

\* C21: lengthToMask returns one row for each length, as wide as the greatest
\* length of the batch, with entry j equal to 1 exactly when j < L[i]; the
\* text mask of UnicodeProcessor.call is that mask for the lengths of the
\* processed texts and is as wide as the rows of the code matrix
C21_MaskOfLengths ==
    /\ (probe.fn = "lengthToMask" /\ probe.done)
       => IsMaskOf(probe.out, probe.arg)
    /\ (probe.fn = "call" /\ probe.done)
       => /\ IsMaskOf(probe.out.textMask, probe.out.lengths)
          /\ \A i \in 1..Len(probe.arg) :
               /\ probe.out.lengths[i] = Length(preprocessText(probe.arg[i], <<"e", "n">>))
               /\ Len(probe.out.textMask[i][1]) = Len(probe.out.textIds[i])

C21_Witness ==
    /\ probe.fn = "call" /\ probe.done
    /\ Len(probe.arg) = 2
    /\ \E j \in 1..Len(probe.out.textMask[2][1]) :
         /\ probe.out.textMask[2][1][j] = 0
         /\ probe.out.textMask[1][1][j] = 1

\* the time index t (from 0) of row b is at or beyond the row's own latent
\* length, the number of chunks that cover the row's floor(duration * rate)
\* samples
BeyondOwnLength(b, t) ==
    LET chunkSize == probe.cfgs.ae.base_chunk_size
                     * probe.cfgs.ttl.chunk_compress_factor
    IN  probe.arg[b] * probe.cfgs.ae.sample_rate < (t * chunkSize + 1) * Grain

\* the latent mask is as wide as the latent buffer
C22_MaskWidth ==
    (probe.fn = "sampleNoisyLatent" /\ probe.done)
    => \A b \in 1..Len(probe.arg) :
         \A d \in 1..Len(probe.out.noisyLatent[b]) :
           Len(probe.out.latentMask[b][1]) = Len(probe.out.noisyLatent[b][d])

\* C22: when sampleNoisyLatent returns, every latent element whose time index
\* is at or beyond its row's own latent length is exactly zero, and the
\* latent mask is as wide as the latent buffer
C22_PaddingIsZero ==
    /\ C22_MaskWidth
    /\ (probe.fn = "sampleNoisyLatent" /\ probe.done)
       => \A b \in 1..Len(probe.arg) :
            \A d \in 1..Len(probe.out.noisyLatent[b]) :
              \A t \in 0..(Len(probe.out.noisyLatent[b][d]) - 1) :
                BeyondOwnLength(b, t)
                => probe.out.noisyLatent[b][d][t + 1] = "zero"

\* the same for the runs in which no call of Math.random() returned 0
C22_PaddingIsZeroForPositiveDraws ==
    probe.fn = "sampleNoisyLatent" /\ probe.done /\ probe.zeroAt = 0
    => C22_PaddingIsZero

\* C22, amended: the latent mask is as wide as the latent buffer; for the
\* batch of one duration that generateSupertonicSpeech passes (line 269) the
\* buffer is exactly as long as the row's own latent length, so the mask is
\* all ones and no element lies beyond that length; for a larger batch the
\* elements beyond a row's own length are exactly zero in the runs in which
\* no call of Math.random() returned 0
C22_OneRowHasNoPadding ==
    /\ C22_MaskWidth
    /\ C22_PaddingIsZeroForPositiveDraws
    /\ (probe.fn = "sampleNoisyLatent" /\ probe.done /\ Len(probe.arg) = 1)
       => /\ \A t \in 1..Len(probe.out.latentMask[1][1]) :
               probe.out.latentMask[1][1][t] = 1
          /\ \A d \in 1..Len(probe.out.noisyLatent[1]) :
               \A t \in 0..(Len(probe.out.noisyLatent[1][d]) - 1) :
                 /\ ~BeyondOwnLength(1, t)
                 /\ probe.out.noisyLatent[1][d][t + 1] # "NaN"

\* a batch of one duration whose number of samples is not whole and fills
\* two latent positions, one of them drawn with Math.random() = 0
C22_Witness ==
    /\ probe.fn = "sampleNoisyLatent" /\ probe.done
    /\ Len(probe.arg) = 1
    /\ (probe.arg[1] * probe.cfgs.ae.sample_rate) % Grain # 0
    /\ Len(probe.out.noisyLatent[1][1]) >= 2
    /\ probe.zeroAt = 2
    /\ probe.out.noisyLatent[1][1][2] = "infinite"

\* the session of the k-th run of a synthesis: the duration predictor, the
\* text encoder, ten denoising steps, the vocoder
SessionOfRun(k) ==
    IF k = 1 THEN "dpOrt"
    ELSE IF k = 2 THEN "textEncOrt"
    ELSE IF k <= 12 THEN "vectorEstOrt"
    ELSE "vocoderOrt"

\* C23: a synthesis runs the duration predictor once, then the text encoder
\* once, then the vector estimator ten times with current_step 0, ..., 9 in
\* this order, each run called after the one before has returned and fed the
\* buffer that the step before wrote, then the vocoder once on the buffer
\* the last step wrote
C23_SessionOrder ==
    LET ev == probe.events
    IN  /\ Len(ev) <= 26
        /\ \A i \in 1..Len(ev) :
             LET k == (i + 1) \div 2
             IN  /\ ev[i].session = SessionOfRun(k)
                 /\ ev[i].ev = (IF i % 2 = 1 THEN "run" ELSE "ret")
                 /\ (i % 2 = 1 /\ k \in 3..12)
                    => /\ ev[i].feeds.current_step = k - 3
                       /\ ev[i].feeds.noisy_latent = k - 3
                 /\ (i % 2 = 1 /\ k = 13) => ev[i].feeds.latent = 10
        /\ probe.pc = "returned" => Len(ev) = 26

C23_Witness ==
    /\ probe.pc = "returned"
    /\ Len(probe.events) = 26
    /\ probe.events[25].session = "vocoderOrt"

\* C24: the emitted chunk has round(sample_rate * f * duration) samples to
\* within one sample, whenever the vocoder returned at least as many samples
\* as the chunk is cut to
C24_ChunkLength ==
    (probe.pc = "returned"
     /\ probe.chunks[1].wav * Grain >= probe.cfgs.ae.sample_rate * probe.dur - Grain + 1)
    => LET x2G == 2 * probe.cfgs.ae.sample_rate * probe.dur
           rounded == (x2G + Grain) \div (2 * Grain)
           n == probe.chunks[1].audio
       IN  /\ Len(probe.chunks) = 1
           /\ n - rounded \in {0 - 1, 0, 1}

C24_Witness ==
    /\ probe.pc = "returned"
    /\ probe.chunks[1].wav > probe.chunks[1].audio
    /\ probe.chunks[1].audio > 0
    /\ (probe.cfgs.ae.sample_rate * probe.dur) % Grain # 0
    /\ 2 * ((probe.cfgs.ae.sample_rate * probe.dur) % Grain) >= Grain

\* C26: the dispose of a synthesis handle never throws, and when it returns
\* it has attempted release on each of the four sessions, once, whatever the
\* earlier releases did
C26_DisposeReleasesAll ==
    /\ probe.pc # "thrown"
    /\ Len(probe.attempts) <= 4
    /\ \A a, b \in 1..Len(probe.attempts) :
         probe.attempts[a] = probe.attempts[b] => a = b
    /\ probe.pc = "returned"
       => {probe.attempts[a] : a \in 1..Len(probe.attempts)}
          = {"dpOrt", "textEncOrt", "vectorEstOrt", "vocoderOrt"}

C26_Witness ==
    /\ probe.pc = "returned"
    /\ probe.outcomes[1] = "rejected"
    /\ probe.outcomes[2] = "thrown"
    /\ Len(probe.attempts) = 4

\* the 'complete' and 'error' messages that handler i posts in this step
TerminalsBy(i) ==
    {k \in 1..Len(worker'.step.terminals) : worker'.step.terminals[k].by = i}

\* the command that handler i serves: the one its activation started with
CommandOf(i) ==
    IF worker.handlers[i].action # "none" THEN worker.handlers[i].action
    ELSE worker'.step.received

\* in every step, a handler posts 'complete' or 'error' only in the step in
\* which it returns, and then exactly one of them when it serves transcribe,
\* chat, speak or preload and none when it serves interrupt, reset or an
\* unknown command; a handler that has returned stays so
C31_TerminalStep ==
    \A i \in Slots :
      LET ends == worker.handlers[i].pc # "done" /\ worker'.handlers[i].pc = "done"
      IN  /\ worker.handlers[i].pc = "done" => worker'.handlers[i].pc = "done"
          /\ Cardinality(TerminalsBy(i)) =
               (IF ends /\ CommandOf(i) \in {"transcribe", "chat", "speak", "preload"}
                THEN 1 ELSE 0)

\* C31: every transcribe, chat, speak or preload command results in exactly
\* one terminal message, complete or error and never both; interrupt and
\* reset produce no message
C31_OneTerminalMessage == [][C31_TerminalStep]_vars

C31_Witness ==
    /\ Len(worker.step.terminals) = 1
    /\ worker.step.terminals[1].status = "error"
    /\ \E i \in Slots : worker.handlers[i].pc = "done" /\ worker.handlers[i].errFrom # "none"
    /\ \E i \in Slots : worker.handlers[i].pc \notin {"done", "idle"}

\* C32: when TtsPipeline.create has failed, no session that one of its loads
\* created is held
C32_FailedCreateHoldsNothing ==
    probe.pc = "thrown" => \A k \in Range(SessionKeys) : probe.sessions[k] # "created"

\* the number of "(" minus the number of ")" before position k of t
RECURSIVE Depth(_, _)
Depth(t, k) ==
    IF k <= 1 THEN 0
    ELSE Depth(t, k - 1) + (IF t[k - 1] = "(" THEN 1
                            ELSE IF t[k - 1] = ")" THEN 0 - 1 ELSE 0)

\* t is made of words and parenthesised markers: the parentheses are
\* balanced and not nested, and no marker is empty
MarkersAndWords(t) ==
    /\ Depth(t, Len(t) + 1) = 0
    /\ \A k \in 1..Len(t) :
         /\ Depth(t, k) \in {0, 1}
         /\ t[k] = "(" => Depth(t, k) = 0
         /\ t[k] = ")" => Depth(t, k) = 1 /\ t[k - 1] # "("

\* t has a word character outside every parenthesis
WordsOutside(t) == \E k \in 1..Len(t) : t[k] = "h" /\ Depth(t, k) = 0

\* C33: a transcription output of at least 2 characters with words outside
\* its parenthesised markers is not rejected by the marker rule: it is posted
\* as complete with its text
C33_WordsOutsideMarkersPass ==
    (probe.fn = "transcribe" /\ probe.done) =>
      LET t == Trim(probe.text)
      IN  (Len(t) >= 2 /\ MarkersAndWords(t) /\ WordsOutside(t))
          => worker.outbox =
               <<[Msg("complete", 1) EXCEPT !.text = t, !.chunks = TRUE]>>

\* the same for the outputs that do not both begin and end with a marker
C33_PassUnlessMarkersAtBothEnds ==
    (probe.fn = "transcribe" /\ probe.done) =>
      LET t == Trim(probe.text)
      IN  (Len(t) >= 2 /\ MarkersAndWords(t) /\ WordsOutside(t)
           /\ (t[1] # "(" \/ t[Len(t)] # ")"))
          => worker.outbox =
               <<[Msg("complete", 1) EXCEPT !.text = t, !.chunks = TRUE]>>

\* C34: also with unlock calls by code that holds no lock, no second caller
\* is let in while a first one is between the resolution of its lock() and
\* its unlock()
C34_ExclusionDespiteStrayUnlock == Cardinality(Holders(probe)) <= 1

\* C35: runExclusive runs the callback only while holding the lock, releases
\* the lock exactly once whether the callback returns or throws, and passes
\* the callback's result or exception on to its caller
C35_RunExclusive ==
    \A c \in Callers :
      /\ probe.cb[c].how = "running"
         => /\ Holders(probe) = {c}
            /\ isLocked(probe.mutex)
            /\ probe.unlocks[c] = 0
      /\ probe.cb[c].how = "none" => probe.unlocks[c] = 0 /\ probe.settled[c].how = "none"
      /\ probe.cb[c].how \in {"returned", "rejected", "threw"}
         => /\ probe.unlocks[c] = 1
            /\ c \notin Holders(probe)
            /\ probe.settled[c].val = probe.cb[c].val
            /\ probe.settled[c].how =
                 (IF probe.cb[c].how = "returned" THEN "resolved" ELSE "rejected")

C35_Witness ==
    \E c, d \in Callers :
      /\ probe.cb[c].how = "threw" /\ probe.settled[c].how = "rejected"
      /\ probe.cb[d].how = "rejected" /\ probe.settled[d].val = "v2"
      /\ probe.via[d] = "none" /\ probe.unlocks[d] = 1
      /\ \E e \in Callers : probe.cb[e].how = "running" /\ probe.via[e] = "handoff"

\* n is ceil(samples / chunkSize)
IsCeilDiv(n, samples, chunkSize) ==
    /\ n * chunkSize >= samples
    /\ n > 0 => (n - 1) * chunkSize < samples
    /\ n >= 0

\* C36: for the batch of one text, the time length of the latent buffer is
\* ceil(predicted_samples / chunk_size), predicted_samples being the whole
\* number of samples of the predicted duration, floor(duration * sample_rate),
\* and chunk_size = base_chunk_size * chunk_compress_factor; the initial
\* noise, the input of every denoising step and the input of the vocoder have
\* this one shape
C36_LatentShape ==
    LET chunkSize == probe.cfgs.ae.base_chunk_size
                     * probe.cfgs.ttl.chunk_compress_factor
        samples == (probe.dur * probe.cfgs.ae.sample_rate) \div Grain
    IN  /\ probe.latentShape # <<>>
           => /\ Len(probe.latentShape) = 3
              /\ probe.latentShape[1] = 1
              /\ probe.latentShape[2] = probe.cfgs.ttl.latent_dim
                                        * probe.cfgs.ttl.chunk_compress_factor
              /\ IsCeilDiv(probe.latentShape[3], samples, chunkSize)
        /\ \A i \in 1..Len(probe.events) :
             (probe.events[i].ev = "run"
              /\ probe.events[i].session \in {"vectorEstOrt", "vocoderOrt"})
             => probe.events[i].feeds.shape = probe.latentShape

C36_Witness ==
    /\ probe.pc = "returned"
    /\ probe.latentShape[3] > 1
    /\ (probe.dur * probe.cfgs.ae.sample_rate) % Grain # 0
    /\ ((probe.dur * probe.cfgs.ae.sample_rate) \div Grain)
         % (probe.cfgs.ae.base_chunk_size * probe.cfgs.ttl.chunk_compress_factor) # 0
    /\ probe.events[25].feeds.shape = probe.latentShape

\* the character has an entry in the indexer
HasEntry(char) == \E k \in 1..Len(IndexedChars) : IndexedChars[k] = char

\* the character is named in the list of unsupported characters, a character
\* beyond U+FFFF by its first unit
Reported(char, unsupportedChars) ==
    IF char \in Astral THEN HighSurrogate(char) \in unsupportedChars
    ELSE char \in unsupportedChars

\* the part of C37 about the rows: call returns one row for each text, every
\* row as long as the longest processed text; the character at position j of
\* a processed text has its entry at position j of the row, 0 if it has none,
\* and the row is 0 after the last character
C37_RowsAndCodes ==
    (probe.fn = "call" /\ probe.done)
       => /\ Len(probe.out.textIds) = Len(probe.arg)
          /\ \A i \in 1..Len(probe.arg) :
               LET text == preprocessText(probe.arg[i], <<"e", "n">>)
                   row == probe.out.textIds[i]
               IN  /\ Len(row) = MathMax(probe.out.lengths)
                   /\ \A j \in 1..Len(row) :
                        row[j] = IF j <= Len(text) /\ HasEntry(text[j])
                                 THEN indexer(text[j]) ELSE 0

\* C37: call returns one code row for each text, padded with zeros to the
\* length of the longest processed text; a character with an entry gets that
\* code; a character without entry gets code 0 and is in unsupportedChars
C37_CodesAndUnsupported ==
    /\ C37_RowsAndCodes
    /\ (probe.fn = "call" /\ probe.done)
          => \A i \in 1..Len(probe.arg) :
               LET text == preprocessText(probe.arg[i], <<"e", "n">>)
               IN  \A j \in 1..Len(text) :
                     ~HasEntry(text[j])
                        => Reported(text[j], probe.out.unsupportedChars)

\* the calls of generate that have passed the flag and have not ended
Transcribing(P) ==
    {c \in 1..Len(P.calls) : P.calls[c].fn = "generate" /\ P.calls[c].pc # "done"}

C38_DropStep ==
    LET c == Len(probe'.calls)
        said == probe'.calls[c].posts
    IN  /\ (Len(probe'.calls) = Len(probe.calls) + 1 /\ probe'.calls[c].fn = "generate")
           => IF probe.processing
              THEN /\ \A k \in 1..Len(said) : said[k] = "debug"
                   /\ probe'.calls[c].pc = "done"
                   /\ probe'.processing
                   /\ Transcribing(probe') = Transcribing(probe)
              ELSE /\ \E k \in 1..Len(said) : said[k] = "start"
                   /\ \/ Transcribing(probe') = {c} /\ probe'.processing
                      \/ /\ Transcribing(probe') = {} /\ ~probe'.processing
                         /\ said[Len(said)] = "error"
        /\ \A d \in Transcribing(probe) \ Transcribing(probe') :
             /\ ~probe'.processing
             /\ \E k \in 1..Len(probe'.calls[d].posts) :
                  probe'.calls[d].posts[k] \in {"complete", "error"}
        /\ probe'.processing <=> Transcribing(probe') # {}
        /\ Cardinality(Transcribing(probe')) <= 1

\* C38: a transcribe or generate command that arrives while a transcription
\* is in flight posts debug messages only and starts nothing; a command that
\* arrives while none is in flight is started; when the transcription in
\* flight ends, with a complete or with an error message, the flag is
\* cleared, and the flag is set exactly while a transcription is in flight
C38_DropWhileInFlight == [][C38_DropStep]_vars

C38_Witness ==
    /\ Len(probe.calls) = 3
    /\ \A c \in 1..3 : probe.calls[c].fn = "generate"
    /\ \E k \in 1..Len(probe.calls[1].posts) : probe.calls[1].posts[k] = "complete"
    /\ probe.calls[2].posts = <<"debug", "debug">>
    /\ probe.calls[3].pc = "generating"

\* the from_pretrained calls made for one part
Started(what) == {l \in 1..Len(probe.loads) : probe.loads[l].what = what}

\* the part of C39 about the tokenizer and the processor, and about the model
\* where navigator.gpu is undefined
C39_OnceWithoutAwait ==
    /\ Cardinality(Started("tokenizer")) <= 1
    /\ Cardinality(Started("processor")) <= 1
    /\ ~probe.gpu => Cardinality(Started("model")) <= 1

\* C39: for every interleaving of load and transcribe commands, the loading
\* of the tokenizer, of the processor and of the model is started at most
\* once
C39_EachLoadedOnce ==
    \A what \in {"tokenizer", "processor", "model"} :
        Cardinality(Started(what)) <= 1

====
